---- MODULE Spec2Model ----
(***************************************************************************)
(* Model of the `dev execute` command of starcoin                          *)
(* (cmd/starcoin/src/dev/execute_cmd.rs, ExecuteCommand::run) and of the   *)
(* rpc view types it uses (rpc/api/src/types.rs).                          *)
(*                                                                         *)
(* One invocation of run is a sequence of steps, one per call to the       *)
(* remote node: build the payload, read the sender's account, read the     *)
(* node's clock, sign, dry run, submit, watch.  The chain (the sender's    *)
(* account resource and the node's clock) is changed by environment        *)
(* actions that interleave with the steps of run.                          *)
(*                                                                         *)
(* The string codecs of the wire types, the argument lists and requests    *)
(* on the wire, the status conversion and the index of a transaction in    *)
(* its block are checked in a specification of their own, SpecCodec, in    *)
(* which one behaviour is one conversion.                                  *)
(***************************************************************************)
EXTENDS Integers, Sequences, FiniteSets, TLC

(***************************************************************************)
(* Bounds                                                                  *)
(***************************************************************************)
\* u64 is modelled with WordBits bits instead of 64
WordBits == 24
\* largest on-chain sequence number the environment produces
MaxSeq == 5
\* largest number of compiled units one source file yields
MaxUnits == 2
\* the reads of chain state one simulation makes
MaxReads == 2
\* the hexadecimal digits of an account address (16 bytes in the program)
AddressHexLen == 4

RECURSIVE Pow2(_)
Pow2(n) == IF n = 0 THEN 1 ELSE 2 * Pow2(n - 1)

U64Modulus == Pow2(WordBits)
U64Max == U64Modulus - 1

(***************************************************************************)
(* Option and Result                                                       *)
(***************************************************************************)
None == [some |-> FALSE]
Some(x) == [some |-> TRUE, v |-> x]
IsSome(o) == o.some
IsNone(o) == ~o.some

\* Vec::pop followed by the element, or None on an empty vector
Last(s) == s[Len(s)]

(***************************************************************************)
(* Command line options (ExecuteOpt)                                       *)
(***************************************************************************)
DefaultExpirationTime == 3000
DefaultMaxGasAmount == 10000000
DefaultGasPrice == 1

SenderA == "0xa"
DefaultAccount == "0xd"

TypeTags1 == <<"U8">>
Args1 == <<[ty |-> "U64", val |-> 7], [ty |-> "Bool", val |-> 1]>>

FunctionId1 == [module |-> [address |-> "0x1", name |-> "Account"],
                function |-> "create_account"]

\* CompiledUnit: the compiler's tag and the unit's serialized bytes
ModuleUnit == [tag |-> "Module", bytes |-> "m1"]
ScriptUnit == [tag |-> "Script", bytes |-> "s1"]
CompiledUnits == {ModuleUnit, ScriptUnit}

RECURSIVE SeqsUpTo(_, _)
SeqsUpTo(S, n) ==
    IF n = 0 THEN {<<>>}
    ELSE LET shorter == SeqsUpTo(S, n - 1)
         IN  shorter \cup {Append(s, x) : s \in {t \in shorter : Len(t) = n - 1}, x \in S}

\* the move_file argument: a source file or a bytecode file
MoveFilePaths == {[name |-> "a", ext |-> "move"], [name |-> "a", ext |-> "mv"]}

\* what the compiler answers: errors, or the compiled units
CompileResults ==
    {[ok |-> FALSE, units |-> <<>>]}
    \cup {[ok |-> TRUE, units |-> us] : us \in SeqsUpTo(CompiledUnits, MaxUnits)}

\* what load_bytecode_file answers: an error, or the file's one unit
LoadResults ==
    {[ok |-> FALSE, units |-> <<>>]}
    \cup {[ok |-> TRUE, units |-> <<u>>] : u \in CompiledUnits}

ExpirationTimes == {DefaultExpirationTime, U64Max}

ExecuteOpt ==
    [sender : {None, Some(SenderA)},
     type_args : {[type_tags |-> None, args |-> None],
                  [type_tags |-> Some(TypeTags1), args |-> Some(Args1)]},
     expiration_time : ExpirationTimes,
     max_gas_amount : {DefaultMaxGasAmount},
     gas_price : {DefaultGasPrice},
     blocking : BOOLEAN,
     dry_run : BOOLEAN,
     local_mode : BOOLEAN,
     script_function : {None, Some(FunctionId1)},
     move_file : {None} \cup {Some(f) : f \in MoveFilePaths}]

(***************************************************************************)
(* Result values of run                                                    *)
(***************************************************************************)
Err(msg, detail) == [tag |-> "Err", msg |-> msg, detail |-> detail]
Ok(v) == [tag |-> "Ok", v |-> v]
NoDetail == "none"

(***************************************************************************)
(* Payload building (run, lines 127-201)                                   *)
(***************************************************************************)
\* the n bytes of v, lowest byte first
RECURSIVE LittleEndian(_, _)
LittleEndian(v, n) == IF n = 0 THEN <<>> ELSE <<v % 256>> \o LittleEndian(v \div 256, n - 1)

\* the bytes of an account address, two hexadecimal digits per byte
AddressBytes(address) ==
    LET digits == IF Len(address) % 2 = 0 THEN address ELSE <<0>> \o address
    IN  [i \in 1..(Len(digits) \div 2) |-> 16 * digits[2 * i - 1] + digits[2 * i]]

\* convert_txn_args: each argument becomes its BCS bytes: an integer its
\* bytes lowest first, a bool one byte, an address its bytes, a byte vector
\* its length (below 128: one byte) and its bytes
BcsBytes(arg) ==
    CASE arg.ty = "U8" -> <<arg.val>>
      [] arg.ty = "U64" -> LittleEndian(arg.val, 8)
      [] arg.ty = "Bool" -> <<arg.val>>
      [] arg.ty = "Address" -> AddressBytes(arg.val)
      [] arg.ty = "U8Vector" -> <<Len(arg.val)>> \o arg.val
convert_txn_args(args) == [i \in 1..Len(args) |-> BcsBytes(args[i])]

ScriptFunctionNew(module, function, ty_args, args) ==
    [module |-> module, function |-> function, ty_args |-> ty_args, args |-> args]

ScriptNew(code, ty_args, args) ==
    [code |-> code, ty_args |-> ty_args, args |-> args]

ModuleNew(code) == [code |-> code]

\* unwrap_or_default on an optional vector
UnwrapOrDefault(o) == IF IsSome(o) THEN o.v ELSE <<>>

\* Bytedata taking the first compiled unit instead of the last
Bytedata_FirstUnit(move_file, io_ok, compile_result, load_result) ==
    IF IsNone(move_file) THEN Ok(None)
    ELSE IF move_file.v.ext = "move" THEN
         IF ~io_ok THEN Err("io error", NoDetail)
         ELSE IF ~compile_result.ok THEN Err("compile error", NoDetail)
         ELSE IF Len(compile_result.units) = 0
              THEN Err("file should at least contain one compile unit", NoDetail)
         ELSE LET compile_unit == compile_result.units[1]
                  is_script == (compile_unit.tag = "Script")
              IN  Ok(Some([bytecode |-> compile_unit.bytes, is_script |-> is_script]))
    ELSE IF ~load_result.ok THEN Err("load bytecode error", NoDetail)
         ELSE LET u == load_result.units[1]
              IN  Ok(Some([bytecode |-> u.bytes, is_script |-> (u.tag = "Script")]))

\* lines 128-169: Ok(Some((bytes, is_script))), Ok(None) or an error;
\* io_ok: the file could be read, compile_result: the compiler's answer,
\* load_result: the answer of load_bytecode_file
Bytedata(move_file, io_ok, compile_result, load_result) ==
    IF IsNone(move_file) THEN Ok(None)
    ELSE IF move_file.v.ext = "move" THEN
         IF ~io_ok THEN Err("io error", NoDetail)
         ELSE IF ~compile_result.ok THEN Err("compile error", NoDetail)
         ELSE IF Len(compile_result.units) = 0
              THEN Err("file should at least contain one compile unit", NoDetail)
         ELSE LET compile_unit == Last(compile_result.units)
                  is_script == (compile_unit.tag = "Script")
              IN  Ok(Some([bytecode |-> compile_unit.bytes, is_script |-> is_script]))
    ELSE IF ~load_result.ok THEN Err("load bytecode error", NoDetail)
         ELSE LET u == load_result.units[1]
              IN  Ok(Some([bytecode |-> u.bytes, is_script |-> (u.tag = "Script")]))

\* lines 172-179: the package deploy arm
PackagePayload(bytecode, function_id, type_tags, args) ==
    LET module_init_script_function ==
            IF IsSome(function_id)
            THEN Some(ScriptFunctionNew(function_id.v.module, function_id.v.function,
                                        type_tags, convert_txn_args(args)))
            ELSE None
    IN  [kind |-> "Package",
         modules |-> <<ModuleNew(bytecode)>>,
         init_script |-> module_init_script_function]

\* lines 181-184: the script arm
ScriptPayload(bytecode, type_tags, args) ==
    [kind |-> "Script",
     script |-> ScriptNew(bytecode, type_tags, convert_txn_args(args))]

\* lines 189-197: the script function arm
ScriptFunctionPayload(function_id, type_tags, args) ==
    [kind |-> "ScriptFunction",
     script_function |-> ScriptFunctionNew(function_id.module, function_id.function,
                                           type_tags, convert_txn_args(args))]

\* TxnPayload with the (script, function) arm missing: the function is ignored
TxnPayload_ScriptIgnoresFunction(bytedata, script_function_id, type_tags, args, package_ok) ==
    IF IsSome(bytedata) /\ ~bytedata.v.is_script THEN
         IF ~package_ok THEN Err("package error", NoDetail)
         ELSE Ok(PackagePayload(bytedata.v.bytecode, script_function_id, type_tags, args))
    ELSE IF IsSome(bytedata) /\ bytedata.v.is_script THEN
         Ok(ScriptPayload(bytedata.v.bytecode, type_tags, args))
    ELSE IF IsNone(bytedata) /\ IsSome(script_function_id) THEN
         Ok(ScriptFunctionPayload(script_function_id.v, type_tags, args))
    ELSE Err("this should not happen, bug here!", NoDetail)

\* TxnPayload with the package built without its init script function
TxnPayload_DropsInit(bytedata, script_function_id, type_tags, args, package_ok) ==
    IF IsSome(bytedata) /\ ~bytedata.v.is_script THEN
         IF ~package_ok THEN Err("package error", NoDetail)
         ELSE Ok(PackagePayload(bytedata.v.bytecode, None, type_tags, args))
    ELSE IF IsSome(bytedata) /\ bytedata.v.is_script /\ IsNone(script_function_id) THEN
         Ok(ScriptPayload(bytedata.v.bytecode, type_tags, args))
    ELSE IF IsSome(bytedata) /\ bytedata.v.is_script /\ IsSome(script_function_id) THEN
         Err("should only provide script function or script file, not both", NoDetail)
    ELSE IF IsNone(bytedata) /\ IsSome(script_function_id) THEN
         Ok(ScriptFunctionPayload(script_function_id.v, type_tags, args))
    ELSE Err("this should not happen, bug here!", NoDetail)

\* lines 170-201: the match on (bytedata, script_function_id);
\* package_ok is the outcome of Package::new on the module's bytes
TxnPayload(bytedata, script_function_id, type_tags, args, package_ok) ==
    IF IsSome(bytedata) /\ ~bytedata.v.is_script THEN
         IF ~package_ok THEN Err("package error", NoDetail)
         ELSE Ok(PackagePayload(bytedata.v.bytecode, script_function_id, type_tags, args))
    ELSE IF IsSome(bytedata) /\ bytedata.v.is_script /\ IsNone(script_function_id) THEN
         Ok(ScriptPayload(bytedata.v.bytecode, type_tags, args))
    ELSE IF IsSome(bytedata) /\ bytedata.v.is_script /\ IsSome(script_function_id) THEN
         Err("should only provide script function or script file, not both", NoDetail)
    ELSE IF IsNone(bytedata) /\ IsSome(script_function_id) THEN
         Ok(ScriptFunctionPayload(script_function_id.v, type_tags, args))
    ELSE Err("this should not happen, bug here!", NoDetail)

(***************************************************************************)
(* Execution status (types.rs, TransactionVMStatus and its From impls)     *)
(***************************************************************************)
AbortLocation1 == "0x1::Account"

\* TransactionStatus as the VM produces it
KeptVMStatuses ==
    {[kept |-> "Executed"],
     [kept |-> "OutOfGas"],
     [kept |-> "MoveAbort", location |-> AbortLocation1, abort_code |-> 42],
     [kept |-> "ExecutionFailure", location |-> AbortLocation1,
      function |-> 0, code_offset |-> 1],
     [kept |-> "MiscellaneousError"]}
DiscardedVMStatuses == {4}
TransactionStatuses ==
    {[st |-> "Keep", k |-> k] : k \in KeptVMStatuses}
    \cup {[st |-> "Discard", d |-> d] : d \in DiscardedVMStatuses}

\* the conversion of KeptVMStatus leaving the abort code out
FromKeptVMStatus_AbortWithoutCode(origin) ==
    CASE origin.kept = "Executed" -> [tag |-> "Executed"]
      [] origin.kept = "OutOfGas" -> [tag |-> "OutOfGas"]
      [] origin.kept = "MoveAbort" ->
            [tag |-> "MoveAbort", location |-> origin.location, abort_code |-> 0]
      [] origin.kept = "ExecutionFailure" ->
            [tag |-> "ExecutionFailure", location |-> origin.location,
             function |-> origin.function, code_offset |-> origin.code_offset]
      [] origin.kept = "MiscellaneousError" -> [tag |-> "MiscellaneousError"]

\* impl From<KeptVMStatus> for TransactionVMStatus
FromKeptVMStatus(origin) ==
    CASE origin.kept = "Executed" -> [tag |-> "Executed"]
      [] origin.kept = "OutOfGas" -> [tag |-> "OutOfGas"]
      [] origin.kept = "MoveAbort" ->
            [tag |-> "MoveAbort", location |-> origin.location,
             abort_code |-> origin.abort_code]
      [] origin.kept = "ExecutionFailure" ->
            [tag |-> "ExecutionFailure", location |-> origin.location,
             function |-> origin.function, code_offset |-> origin.code_offset]
      [] origin.kept = "MiscellaneousError" -> [tag |-> "MiscellaneousError"]

\* impl From<DiscardedVMStatus> for TransactionVMStatus
FromDiscardedVMStatus(s) == [tag |-> "Discard", status_code |-> s]

\* impl From<TransactionStatus> for TransactionVMStatus
FromTransactionStatus(s) ==
    IF s.st = "Discard" THEN FromDiscardedVMStatus(s.d) ELSE FromKeptVMStatus(s.k)

\* the statuses a remote node answers a dry run with
TransactionVMStatuses ==
    {[tag |-> "Executed"],
     [tag |-> "OutOfGas"],
     [tag |-> "MoveAbort", location |-> AbortLocation1, abort_code |-> 42],
     [tag |-> "ExecutionFailure", location |-> AbortLocation1,
      function |-> 0, code_offset |-> 1],
     [tag |-> "MiscellaneousError"],
     [tag |-> "Discard", status_code |-> 4]}

\* TransactionOutputView: events, gas used and write set of the dry run
TransactionOutputView(status) ==
    [events |-> <<"e1">>, gas_used |-> 7, status |-> status, write_set |-> <<"w1">>]

(***************************************************************************)
(* Transactions                                                            *)
(***************************************************************************)
ChainId == 254
GasTokenCode == "0x1::STC::STC"

\* RawUserTransaction::new_with_default_gas_token
RawUserTransactionNew(sender, sequence_number, payload, max_gas, gas_price, expiration, chain_id) ==
    [sender |-> sender,
     sequence_number |-> sequence_number,
     payload |-> payload,
     max_gas_amount |-> max_gas,
     gas_unit_price |-> gas_price,
     gas_token_code |-> GasTokenCode,
     expiration_timestamp_secs |-> expiration,
     chain_id |-> chain_id]

\* the key the node's account service holds for an address
PublicKeyOf(address) == <<"pk", address>>

\* client.account_sign_txn: the raw transaction with the sender's authenticator
SignedUserTransaction(raw_txn) ==
    [raw_txn |-> raw_txn,
     authenticator |-> [public_key |-> PublicKeyOf(raw_txn.sender),
                        signature |-> <<"sig", raw_txn>>]]

\* SignedUserTransaction::id, the hash of the signed transaction
TxnId(signed_txn) == <<"hash", signed_txn>>

\* impl From<Script> for ScriptData / impl From<ScriptFunction> for ScriptData
ScriptDataFromScript(s) ==
    [code |-> [variant |-> "ByteCode", code |-> s.code],
     type_args |-> s.ty_args,
     args |-> [variant |-> "BCS", vs |-> s.args]]
ScriptDataFromScriptFunction(s) ==
    [code |-> [variant |-> "ScriptFunction",
               id |-> [module |-> s.module, function |-> s.function]],
     type_args |-> s.ty_args,
     args |-> [variant |-> "BCS", vs |-> s.args]]

\* the conversion leaving the init script function of a package out
TransactionRequestFrom_PackageWithoutScript(raw) ==
    LET p == raw.payload
        script == CASE p.kind = "Script" -> Some(ScriptDataFromScript(p.script))
                    [] p.kind = "Package" -> None
                    [] p.kind = "ScriptFunction" ->
                          Some(ScriptDataFromScriptFunction(p.script_function))
        modules == IF p.kind = "Package"
                   THEN [i \in 1..Len(p.modules) |-> p.modules[i].code]
                   ELSE <<>>
    IN  [sender |-> Some(raw.sender),
         sequence_number |-> Some(raw.sequence_number),
         script |-> script,
         modules |-> modules,
         max_gas_amount |-> Some(raw.max_gas_amount),
         gas_unit_price |-> Some(raw.gas_unit_price),
         gas_token_code |-> Some(raw.gas_token_code),
         expiration_timestamp_secs |-> Some(raw.expiration_timestamp_secs),
         chain_id |-> Some(raw.chain_id)]

\* impl From<RawUserTransaction> for TransactionRequest
TransactionRequestFrom(raw) ==
    LET p == raw.payload
        script == CASE p.kind = "Script" -> Some(ScriptDataFromScript(p.script))
                    [] p.kind = "Package" ->
                          IF IsSome(p.init_script)
                          THEN Some(ScriptDataFromScriptFunction(p.init_script.v))
                          ELSE None
                    [] p.kind = "ScriptFunction" ->
                          Some(ScriptDataFromScriptFunction(p.script_function))
        modules == IF p.kind = "Package"
                   THEN [i \in 1..Len(p.modules) |-> p.modules[i].code]
                   ELSE <<>>
    IN  [sender |-> Some(raw.sender),
         sequence_number |-> Some(raw.sequence_number),
         script |-> script,
         modules |-> modules,
         max_gas_amount |-> Some(raw.max_gas_amount),
         gas_unit_price |-> Some(raw.gas_unit_price),
         gas_token_code |-> Some(raw.gas_token_code),
         expiration_timestamp_secs |-> Some(raw.expiration_timestamp_secs),
         chain_id |-> Some(raw.chain_id)]

(***************************************************************************)
(* State                                                                   *)
(***************************************************************************)
VARIABLES
    account_resource,  \* the chain: the sender's account resource, or None
    now_seconds,       \* the chain: the node's clock (node_info.now_seconds)
    pc,                \* where the current invocation of run stands
    opt,               \* ctx.opt() of the current invocation
    sender,            \* the resolved sender address
    compile_units,     \* the compiler's answer while it is in scope
    bytedata,          \* the bytes and the script tag taken from the file
    txn_payload,       \* the payload built from the options
    read_resource,     \* what get_account_resource returned to this invocation
    node_now,          \* the now_seconds node_info returned to this invocation
    raw_txn,
    signed_txn,
    dry_run_input,     \* the argument of playground::dry_run or client.dry_run
    output,            \* the dry run's output
    submitted,         \* the arguments of submit_transaction, in call order
    watched,           \* the arguments of watch_txn, in call order
    calls,             \* the calls this invocation made to its collaborators
    result,            \* what run returned
    prev_seq,          \* the sequence number the previous invocation read
    state_view,        \* the chain state the running simulation reads from
    sim_reads,         \* what the running simulation has read so far
    codec              \* the last conversion between a wire string and a value

vars == <<account_resource, now_seconds, pc, opt, sender, compile_units, bytedata,
          txn_payload,
          read_resource, node_now, raw_txn, signed_txn, dry_run_input, output,
          submitted, watched, calls, result, prev_seq, state_view, sim_reads, codec>>

NowValues == {1000, U64Max}

\* no conversion was made yet
CodecIdle == [op |-> "idle"]

Blocks == {[header |-> [number |-> 9, block_hash |-> "blk9"]],
           [header |-> [number |-> 10, block_hash |-> "blk10"]]}

Init ==
    /\ account_resource \in {None, Some([sequence_number |-> MaxSeq - 1])}
    /\ now_seconds = 1000
    /\ pc = "idle"
    /\ opt = None
    /\ sender = None
    /\ compile_units = None
    /\ bytedata = None
    /\ txn_payload = None
    /\ read_resource = None
    /\ node_now = None
    /\ raw_txn = None
    /\ signed_txn = None
    /\ dry_run_input = None
    /\ output = None
    /\ submitted = <<>>
    /\ watched = <<>>
    /\ calls = <<>>
    /\ result = None
    /\ prev_seq = None
    /\ state_view = None
    /\ sim_reads = <<>>
    /\ codec = CodecIdle

\* run returns r: nothing else of the invocation changes
Return(r) ==
    /\ pc' = "done"
    /\ result' = Some(r)

(***************************************************************************)
(* The chain: other transactions of the sender are included, time passes   *)
(***************************************************************************)
IncludeOtherTxn ==
    /\ IsSome(account_resource)
    /\ account_resource.v.sequence_number < MaxSeq
    /\ account_resource' = Some([sequence_number |-> account_resource.v.sequence_number + 1])
    /\ UNCHANGED <<now_seconds, pc, opt, sender, compile_units, bytedata, txn_payload, read_resource, node_now,
                   raw_txn, signed_txn, dry_run_input, output, submitted, watched,
                   calls, result, prev_seq, state_view, sim_reads, codec>>

NodeClockAdvance ==
    /\ \E t \in NowValues : t > now_seconds /\ now_seconds' = t
    /\ UNCHANGED <<account_resource, pc, opt, sender, compile_units, bytedata, txn_payload, read_resource,
                   node_now, raw_txn, signed_txn, dry_run_input, output, submitted,
                   watched, calls, result, prev_seq, state_view, sim_reads, codec>>

(***************************************************************************)
(* ExecuteCommand::run                                                     *)
(***************************************************************************)
\* lines 117-169: resolve the sender, read the file and compile it
LoadMoveFile ==
    /\ pc = "idle"
    /\ \E o \in ExecuteOpt, default_account_ok \in BOOLEAN, io_ok \in BOOLEAN,
          compile_result \in CompileResults, load_result \in LoadResults :
         LET data == Bytedata(o.move_file, io_ok, compile_result, load_result)
             compiled == /\ IsSome(o.move_file) /\ o.move_file.v.ext = "move"
                         /\ io_ok
         IN  /\ opt' = Some(o)
             /\ IF IsNone(o.sender) /\ ~default_account_ok THEN
                     /\ Return(Err("no default account", NoDetail))
                     /\ UNCHANGED <<sender, compile_units, bytedata>>
                ELSE /\ sender' = IF IsSome(o.sender) THEN o.sender
                                  ELSE Some(DefaultAccount)
                     /\ compile_units' = IF compiled THEN Some(compile_result) ELSE None
                     /\ IF data.tag = "Err"
                        THEN Return(data) /\ UNCHANGED bytedata
                        ELSE /\ bytedata' = data.v
                             /\ pc' = "build_payload"
                             /\ UNCHANGED result
    /\ UNCHANGED <<account_resource, now_seconds, txn_payload, read_resource, node_now,
                   raw_txn, signed_txn, dry_run_input, output, submitted, watched,
                   calls, prev_seq, state_view, sim_reads, codec>>

\* lines 170-201: build the payload; the compiler's units are out of scope
BuildPayload ==
    /\ pc = "build_payload"
    /\ compile_units' = None
    /\ \E package_ok \in BOOLEAN :
         LET payload == TxnPayload(bytedata, opt.v.script_function,
                                   UnwrapOrDefault(opt.v.type_args.type_tags),
                                   UnwrapOrDefault(opt.v.type_args.args), package_ok)
         IN  IF payload.tag = "Err"
             THEN Return(payload) /\ UNCHANGED txn_payload
             ELSE /\ txn_payload' = Some(payload.v)
                  /\ pc' = "get_account_resource"
                  /\ UNCHANGED result
    /\ UNCHANGED <<account_resource, now_seconds, opt, sender, bytedata, read_resource,
                   node_now, raw_txn, signed_txn, dry_run_input, output, submitted,
                   watched, calls, prev_seq, state_view, sim_reads, codec>>

\* AccountCheck with the existence test left out
AccountCheck_Missing(resource, address) == None

\* lines 210-212: bail when the address has no account resource
AccountCheck(resource, address) ==
    IF IsNone(resource) THEN Some(Err("address not exists on chain", address))
    ELSE None

\* lines 204-213: read the sender's account resource from the chain
GetAccountResource ==
    /\ pc = "get_account_resource"
    /\ calls' = Append(calls, "get_account_resource")
    /\ \E rpc_ok \in BOOLEAN :
         IF ~rpc_ok THEN
              /\ Return(Err("state reader error", NoDetail))
              /\ UNCHANGED read_resource
         ELSE LET failure == AccountCheck(account_resource, sender.v)
              IN  /\ read_resource' = Some(account_resource)
                  /\ IF IsSome(failure) THEN Return(failure.v)
                     ELSE IF IsNone(account_resource)
                     THEN /\ pc' = "done"
                          /\ result' = Some([tag |-> "Panic",
                                             msg |-> "unwrap on a None value"])
                     ELSE pc' = "node_info" /\ UNCHANGED result
    /\ UNCHANGED <<account_resource, now_seconds, opt, sender, compile_units, bytedata,
                   txn_payload, node_now, raw_txn, signed_txn, dry_run_input, output,
                   submitted, watched, prev_seq, state_view, sim_reads, codec>>

\* SequenceNumber reading the chain again when the transaction is assembled
SequenceNumber_Live(resource) == account_resource.v.sequence_number

\* SequenceNumber answering from the value an earlier invocation fetched
SequenceNumber_Cached(resource) ==
    IF IsSome(prev_seq) THEN prev_seq.v ELSE resource.sequence_number

\* line 221: account_resource.sequence_number()
SequenceNumber(resource) == resource.sequence_number

\* line 217: opt.expiration_time + node_info.now_seconds on u64;
\* a build with overflow checks panics on overflow, one without wraps
ExpirationTime(expiration_time, node_now_seconds, overflow_checks) ==
    LET sum == expiration_time + node_now_seconds IN
    IF sum > U64Max
    THEN IF overflow_checks THEN [panic |-> TRUE, v |-> 0]
         ELSE [panic |-> FALSE, v |-> sum % U64Modulus]
    ELSE [panic |-> FALSE, v |-> sum]

\* lines 215-228: read the node's clock and assemble the raw transaction
NodeInfo ==
    /\ pc = "node_info"
    /\ calls' = Append(calls, "node_info")
    /\ \E rpc_ok \in BOOLEAN, overflow_checks \in BOOLEAN :
         IF ~rpc_ok THEN
              /\ Return(Err("node_info error", NoDetail))
              /\ UNCHANGED <<node_now, raw_txn>>
         ELSE LET expiration_time ==
                      ExpirationTime(opt.v.expiration_time, now_seconds, overflow_checks)
              IN  /\ node_now' = Some(now_seconds)
                  /\ IF expiration_time.panic THEN
                          /\ pc' = "done"
                          /\ result' = Some([tag |-> "Panic",
                                             msg |-> "attempt to add with overflow"])
                          /\ UNCHANGED raw_txn
                     ELSE /\ raw_txn' = Some(RawUserTransactionNew(
                                               sender.v,
                                               SequenceNumber(read_resource.v.v),
                                               txn_payload.v,
                                               opt.v.max_gas_amount,
                                               opt.v.gas_price,
                                               expiration_time.v,
                                               ChainId))
                          /\ pc' = "account_sign_txn"
                          /\ UNCHANGED result
    /\ UNCHANGED <<account_resource, now_seconds, opt, sender, compile_units, bytedata, txn_payload,
                   read_resource, signed_txn, dry_run_input, output, submitted,
                   watched, prev_seq, state_view, sim_reads, codec>>

\* lines 230-231: the node's account service signs the raw transaction
AccountSignTxn ==
    /\ pc = "account_sign_txn"
    /\ calls' = Append(calls, "account_sign_txn")
    /\ \E rpc_ok \in BOOLEAN :
         IF ~rpc_ok THEN
              /\ Return(Err("sign error", NoDetail))
              /\ UNCHANGED signed_txn
         ELSE /\ signed_txn' = Some(SignedUserTransaction(raw_txn.v))
              /\ pc' = "dry_run"
              /\ UNCHANGED result
    /\ UNCHANGED <<account_resource, now_seconds, opt, sender, compile_units, bytedata, txn_payload,
                   read_resource, node_now, raw_txn, dry_run_input, output, submitted,
                   watched, prev_seq, state_view, sim_reads, codec>>

\* lines 236-239: what the local dry run is given
DryRunTransaction(txn) ==
    [mode |-> "local",
     public_key |-> txn.authenticator.public_key,
     raw_txn |-> txn.raw_txn]

\* DryRunTransactionRequest leaving the sender's public key out
DryRunTransactionRequest_WithoutKey(txn) ==
    [mode |-> "remote",
     sender_public_key |-> None,
     transaction |-> TransactionRequestFrom(txn.raw_txn)]

\* lines 243-246: what the remote dry run is given
DryRunTransactionRequest(txn) ==
    [mode |-> "remote",
     sender_public_key |-> Some(txn.authenticator.public_key),
     transaction |-> TransactionRequestFrom(txn.raw_txn)]

\* StatusCheck without the catch-all arm: only a discard stops run
StatusCheck_NoCatchAll(status) ==
    IF status.tag = "Discard"
    THEN Some(Err("TransactionStatus is discard", status.status_code))
    ELSE None

\* StatusCheck whose errors do not carry the status
StatusCheck_DropsStatus(status) ==
    IF status.tag = "Executed" THEN None
    ELSE Some(Err("pre-run failed", NoDetail))

\* lines 248-256: the match on output.status; None lets run go on
StatusCheck(status) ==
    CASE status.tag = "Discard" ->
            Some(Err("TransactionStatus is discard", status.status_code))
      [] status.tag = "Executed" -> None
      [] OTHER -> Some(Err("pre-run failed, status", status))

\* RemoteStateReader::new (line 233), and the node at the start of its own dry
\* run: the state the simulation will read, taken once
StateViewNew(chain_account_resource) == [account_resource |-> chain_account_resource]

\* lines 232-247, the call: the simulation starts on the signed transaction,
\* locally over a state reader or on the node
DryRunStart ==
    /\ pc = "dry_run"
    /\ calls' = Append(calls, "dry_run")
    /\ dry_run_input' = Some(IF opt.v.local_mode
                             THEN DryRunTransaction(signed_txn.v)
                             ELSE DryRunTransactionRequest(signed_txn.v))
    /\ \E reader_ok \in BOOLEAN :
         IF opt.v.local_mode /\ ~reader_ok THEN
              /\ Return(Err("state reader error", NoDetail))
              /\ UNCHANGED state_view
         ELSE /\ state_view' = Some(StateViewNew(account_resource))
              /\ pc' = "simulate"
              /\ UNCHANGED result
    /\ UNCHANGED <<account_resource, now_seconds, opt, sender, compile_units, bytedata, txn_payload,
                   read_resource, node_now, raw_txn, signed_txn, output, submitted, watched,
                   prev_seq, sim_reads, codec>>

\* StateViewGet reading the chain as it is now
StateViewGet_Live(view) == account_resource

\* a read of the sender's account made by the simulation
StateViewGet(view) == view.account_resource

\* the simulation reads state while the chain goes on
SimulatedRead ==
    /\ pc = "simulate"
    /\ Len(sim_reads) < MaxReads
    /\ sim_reads' = Append(sim_reads, StateViewGet(state_view.v))
    /\ UNCHANGED <<account_resource, now_seconds, pc, opt, sender, compile_units, bytedata,
                   txn_payload, read_resource, node_now, raw_txn, signed_txn, dry_run_input,
                   output, submitted, watched, calls, result, prev_seq, state_view, codec>>

\* DryRun going on to submit_transaction whatever the dry_run option says
DryRun_IgnoresDryRunOption ==
    /\ pc = "simulate"
    /\ state_view' = None
    /\ sim_reads' = <<>>
    /\ \E rpc_ok \in BOOLEAN, vm_status \in TransactionStatuses,
          node_status \in TransactionVMStatuses :
         IF ~rpc_ok THEN
              /\ Return(Err("dry run error", NoDetail))
              /\ UNCHANGED output
         ELSE LET out == IF opt.v.local_mode
                         THEN TransactionOutputView(FromTransactionStatus(vm_status))
                         ELSE TransactionOutputView(node_status)
                  failure == StatusCheck(out.status)
              IN  /\ output' = Some(out)
                  /\ IF IsSome(failure) THEN Return(failure.v)
                     ELSE pc' = "submit_transaction" /\ UNCHANGED result
    /\ UNCHANGED <<account_resource, now_seconds, opt, sender, compile_units, bytedata, txn_payload,
                   read_resource, node_now, raw_txn, signed_txn, dry_run_input, submitted,
                   watched, calls, prev_seq, codec>>

\* lines 232-257 and 270-272: the dry run answers, locally or from the node;
\* run stops unless the transaction executed, and returns the output when the
\* dry_run option is set
DryRun ==
    /\ pc = "simulate"
    /\ state_view' = None
    /\ sim_reads' = <<>>
    /\ \E rpc_ok \in BOOLEAN, vm_status \in TransactionStatuses,
          node_status \in TransactionVMStatuses :
         IF ~rpc_ok THEN
              /\ Return(Err("dry run error", NoDetail))
              /\ UNCHANGED output
         ELSE LET out == IF opt.v.local_mode
                         THEN TransactionOutputView(FromTransactionStatus(vm_status))
                         ELSE TransactionOutputView(node_status)
                  failure == StatusCheck(out.status)
              IN  /\ output' = Some(out)
                  /\ IF IsSome(failure) THEN Return(failure.v)
                     ELSE IF ~opt.v.dry_run
                     THEN pc' = "submit_transaction" /\ UNCHANGED result
                     ELSE Return(Ok([view |-> "DryRun", output |-> out]))
    /\ UNCHANGED <<account_resource, now_seconds, opt, sender, compile_units, bytedata, txn_payload,
                   read_resource, node_now, raw_txn, signed_txn, dry_run_input, submitted,
                   watched, calls, prev_seq, codec>>

\* ExecutionOutputView::new
ExecutionOutputView(txn_hash) ==
    [txn_hash |-> txn_hash, block_number |-> None, block_id |-> None]

\* SubmitTransaction sending the transaction again when the broadcast fails
SubmitTransaction_Retry ==
    /\ pc = "submit_transaction"
    /\ calls' = Append(calls, "submit_transaction")
    /\ submitted' = Append(submitted, signed_txn.v)
    /\ \E rpc_ok \in BOOLEAN :
         IF ~rpc_ok THEN UNCHANGED <<pc, result>>
         ELSE IF opt.v.blocking THEN pc' = "watch_txn" /\ UNCHANGED result
         ELSE Return(Ok([view |-> "Run",
                         output |-> ExecutionOutputView(TxnId(signed_txn.v))]))
    /\ UNCHANGED <<account_resource, now_seconds, opt, sender, compile_units, bytedata,
                   txn_payload, read_resource, node_now, raw_txn, signed_txn,
                   dry_run_input, output, watched, prev_seq, state_view, sim_reads, codec>>

\* SubmitTransaction watching for inclusion whether or not blocking is set
SubmitTransaction_AlwaysWatch ==
    /\ pc = "submit_transaction"
    /\ calls' = Append(calls, "submit_transaction")
    /\ submitted' = Append(submitted, signed_txn.v)
    /\ \E rpc_ok \in BOOLEAN :
         IF ~rpc_ok THEN Return(Err("submit error", NoDetail))
         ELSE pc' = "watch_txn" /\ UNCHANGED result
    /\ UNCHANGED <<account_resource, now_seconds, opt, sender, compile_units, bytedata,
                   txn_payload, read_resource, node_now, raw_txn, signed_txn,
                   dry_run_input, output, watched, prev_seq, state_view, sim_reads, codec>>

\* lines 258-269: broadcast the signed transaction
SubmitTransaction ==
    /\ pc = "submit_transaction"
    /\ calls' = Append(calls, "submit_transaction")
    /\ submitted' = Append(submitted, signed_txn.v)
    /\ \E rpc_ok \in BOOLEAN :
         IF ~rpc_ok THEN Return(Err("submit error", NoDetail))
         ELSE IF opt.v.blocking THEN pc' = "watch_txn" /\ UNCHANGED result
         ELSE Return(Ok([view |-> "Run",
                         output |-> ExecutionOutputView(TxnId(signed_txn.v))]))
    /\ UNCHANGED <<account_resource, now_seconds, opt, sender, compile_units, bytedata, txn_payload,
                   read_resource, node_now, raw_txn, signed_txn, dry_run_input, output,
                   watched, prev_seq, state_view, sim_reads, codec>>

\* lines 264-269: wait for the block that includes the transaction
WatchTxn ==
    /\ pc = "watch_txn"
    /\ calls' = Append(calls, "watch_txn")
    /\ watched' = Append(watched, TxnId(signed_txn.v))
    /\ \E watch_ok \in BOOLEAN, block \in Blocks :
         IF ~watch_ok THEN Return(Err("watch error", NoDetail))
         ELSE Return(Ok([view |-> "Run",
                         output |-> [ExecutionOutputView(TxnId(signed_txn.v)) EXCEPT
                                       !.block_number = Some(block.header.number),
                                       !.block_id = Some(block.header.block_hash)]]))
    /\ UNCHANGED <<account_resource, now_seconds, opt, sender, compile_units, bytedata, txn_payload,
                   read_resource, node_now, raw_txn, signed_txn, dry_run_input, output,
                   submitted, prev_seq, state_view, sim_reads, codec>>

\* the command returned; the next invocation starts from nothing but the chain
NextInvocation ==
    /\ pc = "done"
    /\ pc' = "idle"
    /\ prev_seq' = IF IsSome(read_resource) /\ IsSome(read_resource.v)
                   THEN Some(read_resource.v.v.sequence_number)
                   ELSE prev_seq
    /\ opt' = None
    /\ sender' = None
    /\ compile_units' = None
    /\ bytedata' = None
    /\ txn_payload' = None
    /\ read_resource' = None
    /\ node_now' = None
    /\ raw_txn' = None
    /\ signed_txn' = None
    /\ dry_run_input' = None
    /\ output' = None
    /\ submitted' = <<>>
    /\ watched' = <<>>
    /\ calls' = <<>>
    /\ result' = None
    /\ state_view' = None
    /\ sim_reads' = <<>>
    /\ UNCHANGED <<account_resource, now_seconds, codec>>

Next ==
    \/ IncludeOtherTxn
    \/ NodeClockAdvance
    \/ LoadMoveFile
    \/ BuildPayload
    \/ GetAccountResource
    \/ NodeInfo
    \/ AccountSignTxn
    \/ DryRunStart
    \/ SimulatedRead
    \/ DryRun
    \/ SubmitTransaction
    \/ WatchTxn
    \/ NextInvocation

Spec == Init /\ [][Next]_vars

(***************************************************************************)
(* Properties of ExecuteCommand::run                                       *)
(***************************************************************************)
Count(call) == Cardinality({i \in DOMAIN calls : calls[i] = call})
Called(call) == \E i \in DOMAIN calls : calls[i] = call
\* every call of b comes after a call of a
Precedes(a, b) ==
    \A j \in DOMAIN calls : calls[j] = b => \E i \in 1..(j - 1) : calls[i] = a

IsErr(r, msg) == r.tag = "Err" /\ r.msg = msg

\* C1: submit_transaction is reached and invoked only after the dry run of
\* this invocation answered with status Executed.
C1_BroadcastOnlyAfterExecutedDryRun ==
    (pc = "submit_transaction" \/ pc = "watch_txn" \/ Called("submit_transaction")
        \/ submitted /= <<>>) =>
        /\ Called("dry_run")
        /\ Precedes("dry_run", "submit_transaction")
        /\ IsSome(dry_run_input)
        /\ IsSome(output)
        /\ output.v.status.tag = "Executed"

C1_Witness ==
    /\ Called("submit_transaction")
    /\ Len(submitted) = 1
    /\ IsSome(output)
    /\ output.v.status.tag = "Executed"

\* C2: a dry run that answers Discard makes run fail with the discard's
\* status code, one that answers OutOfGas, MoveAbort, ExecutionFailure or
\* MiscellaneousError makes run fail with that status (abort code included);
\* nothing is broadcast, whatever the dry_run option says.
C2_RejectedDryRunFails ==
    (IsSome(output) /\ output.v.status.tag /= "Executed") =>
        /\ pc = "done"
        /\ IsSome(result)
        /\ IF output.v.status.tag = "Discard"
           THEN /\ IsErr(result.v, "TransactionStatus is discard")
                /\ result.v.detail = output.v.status.status_code
           ELSE /\ IsErr(result.v, "pre-run failed, status")
                /\ result.v.detail = output.v.status
        /\ submitted = <<>>
        /\ ~Called("submit_transaction")
        /\ ~Called("watch_txn")

C2_Witness ==
    /\ IsSome(output)
    /\ output.v.status.tag = "MoveAbort"
    /\ ~opt.v.dry_run
    /\ IsSome(result)
    /\ IsErr(result.v, "pre-run failed, status")
    /\ result.v.detail.abort_code = 42

\* the step of run that matches on (bytedata, script_function_id)
PayloadStep == pc = "build_payload" /\ pc' /= "build_payload"

NotBothMsg == "should only provide script function or script file, not both"
NeitherMsg == "this should not happen, bug here!"

\* C3 as stated: a function reference together with bytecode, tagged script
\* or module alike, is rejected (run ends in an error) before a payload is
\* built, and so is a request with neither.
C3_Original ==
    [][PayloadStep =>
         /\ (IsSome(bytedata) /\ IsSome(opt.v.script_function)) =>
                (pc' = "done" /\ IsNone(txn_payload') /\ result'.v.tag = "Err")
         /\ (IsNone(bytedata) /\ IsNone(opt.v.script_function)) =>
                (pc' = "done" /\ IsNone(txn_payload') /\ IsErr(result'.v, NeitherMsg))
      ]_vars

\* C3 amended: a function reference together with bytecode tagged script is
\* rejected before a payload is built, and so is a request with neither;
\* a function reference together with bytecode tagged module is not rejected
\* as ambiguous: unless Package::new fails it gives a Package whose init call
\* is that function.
C3_AmbiguousOrMissingTargetRejected ==
    [][PayloadStep =>
         /\ (IsSome(bytedata) /\ bytedata.v.is_script /\ IsSome(opt.v.script_function)) =>
                (pc' = "done" /\ IsNone(txn_payload') /\ IsErr(result'.v, NotBothMsg))
         /\ (IsSome(bytedata) /\ ~bytedata.v.is_script /\ IsSome(opt.v.script_function)) =>
                \/ pc' = "done" /\ IsNone(txn_payload') /\ IsErr(result'.v, "package error")
                \/ /\ pc' = "get_account_resource"
                   /\ IsSome(txn_payload')
                   /\ txn_payload'.v.kind = "Package"
                   /\ IsSome(txn_payload'.v.init_script)
                   /\ txn_payload'.v.init_script.v.function = opt.v.script_function.v.function
         /\ (IsNone(bytedata) /\ IsNone(opt.v.script_function)) =>
                (pc' = "done" /\ IsNone(txn_payload') /\ IsErr(result'.v, NeitherMsg))
      ]_vars

C3_Witness ==
    /\ pc = "done"
    /\ IsSome(bytedata)
    /\ bytedata.v.is_script
    /\ IsSome(opt.v.script_function)
    /\ IsNone(txn_payload)
    /\ IsErr(result.v, NotBothMsg)

\* C4: the payload's variant follows from the artifact's tag and from the
\* presence of a function reference: module gives a Package of that one
\* module with an init call iff a function was given, script without a
\* function gives a Script, a function without artifact gives a
\* ScriptFunction; type args and args go into the call the variant holds.
C4_PayloadVariantFollowsTagAndFunction ==
    /\ IsSome(bytedata) =>
          \E u \in CompiledUnits : /\ bytedata.v.bytecode = u.bytes
                                   /\ bytedata.v.is_script = (u.tag = "Script")
    /\ IsSome(txn_payload) =>
          LET p == txn_payload.v
              fn == opt.v.script_function
              tys == IF IsSome(opt.v.type_args.type_tags)
                     THEN opt.v.type_args.type_tags.v ELSE <<>>
              as == IF IsSome(opt.v.type_args.args)
                    THEN convert_txn_args(opt.v.type_args.args.v) ELSE <<>>
          IN  IF IsSome(bytedata) /\ ~bytedata.v.is_script THEN
                   /\ p.kind = "Package"
                   /\ p.modules = <<[code |-> bytedata.v.bytecode]>>
                   /\ IsSome(p.init_script) <=> IsSome(fn)
                   /\ IsSome(fn) =>
                         p.init_script.v = [module |-> fn.v.module,
                                            function |-> fn.v.function,
                                            ty_args |-> tys, args |-> as]
              ELSE IF IsSome(bytedata) THEN
                   /\ IsNone(fn)
                   /\ p.kind = "Script"
                   /\ p.script = [code |-> bytedata.v.bytecode, ty_args |-> tys,
                                  args |-> as]
              ELSE /\ IsSome(fn)
                   /\ p.kind = "ScriptFunction"
                   /\ p.script_function = [module |-> fn.v.module,
                                           function |-> fn.v.function,
                                           ty_args |-> tys, args |-> as]

C4_Witness ==
    /\ IsSome(txn_payload)
    /\ txn_payload.v.kind = "Package"
    /\ IsSome(txn_payload.v.init_script)
    /\ Len(txn_payload.v.init_script.v.args) = 2
    /\ Len(txn_payload.v.modules) = 1

\* C5: the sequence number of the raw (and signed) transaction is the one in
\* the account resource this invocation read, and that read returns what is
\* on chain at the time of the read, whatever an earlier invocation fetched.
C5_SequenceNumberReadInThisInvocation ==
    /\ [](IsSome(raw_txn) =>
             /\ IsSome(read_resource)
             /\ IsSome(read_resource.v)
             /\ raw_txn.v.sequence_number = read_resource.v.v.sequence_number
             /\ IsSome(signed_txn) =>
                   signed_txn.v.raw_txn.sequence_number
                       = read_resource.v.v.sequence_number)
    /\ [][(pc = "get_account_resource" /\ IsSome(read_resource'))
             => read_resource'.v = account_resource]_vars

C5_Witness ==
    /\ IsSome(raw_txn)
    /\ raw_txn.v.sequence_number = MaxSeq
    /\ IsSome(prev_seq)
    /\ prev_seq.v /= raw_txn.v.sequence_number

\* C6: the expiration of every assembled raw transaction is the node's
\* now_seconds fetched in this invocation plus the caller's timeout.
C6_ExpirationIsNodeNowPlusTimeout ==
    IsSome(raw_txn) =>
        /\ IsSome(node_now)
        /\ raw_txn.v.expiration_timestamp_secs = node_now.v + opt.v.expiration_time

NothingSigned ==
    /\ IsNone(raw_txn)
    /\ IsNone(signed_txn)
    /\ IsNone(dry_run_input)
    /\ submitted = <<>>
    /\ ~Called("account_sign_txn")
    /\ ~Called("dry_run")
    /\ ~Called("submit_transaction")

\* C7: when the sender has no account resource run fails, when node_info
\* fails run fails; in both cases nothing is signed, simulated or broadcast,
\* and signing comes only after both reads succeeded.
C7_NoSigningWithoutAccountAndClock ==
    /\ (IsSome(read_resource) /\ IsNone(read_resource.v)) =>
          /\ pc = "done"
          /\ IsErr(result.v, "address not exists on chain")
          /\ ~Called("node_info")
          /\ NothingSigned
    /\ (Called("node_info") /\ IsNone(node_now)) =>
          /\ pc = "done"
          /\ IsErr(result.v, "node_info error")
          /\ NothingSigned
    /\ Called("account_sign_txn") =>
          /\ IsSome(read_resource)
          /\ IsSome(read_resource.v)
          /\ IsSome(node_now)
          /\ Precedes("get_account_resource", "account_sign_txn")
          /\ Precedes("node_info", "account_sign_txn")

C7_Witness ==
    /\ pc = "done"
    /\ IsSome(read_resource)
    /\ IsNone(read_resource.v)
    /\ IsErr(result.v, "address not exists on chain")

\* C8: the transaction given to submit_transaction is the signed transaction
\* whose raw transaction and public key were dry run in this invocation, and
\* the id reported to the caller and watched is the id of that transaction.
C8_SubmittedIsTheDryRunTransaction ==
    /\ submitted /= <<>> =>
          LET txn == submitted[1] IN
          /\ txn = signed_txn.v
          /\ raw_txn.v = txn.raw_txn
          /\ IsSome(dry_run_input)
          /\ IF opt.v.local_mode
             THEN /\ dry_run_input.v.mode = "local"
                  /\ dry_run_input.v.raw_txn = txn.raw_txn
                  /\ dry_run_input.v.public_key = txn.authenticator.public_key
             ELSE /\ dry_run_input.v.mode = "remote"
                  /\ dry_run_input.v.transaction = TransactionRequestFrom(txn.raw_txn)
                  /\ dry_run_input.v.sender_public_key
                        = Some(txn.authenticator.public_key)
          /\ \A i \in DOMAIN watched : watched[i] = <<"hash", txn>>
          /\ (pc = "done" /\ result.v.tag = "Ok") =>
                result.v.v.output.txn_hash = <<"hash", txn>>
    /\ watched /= <<>> => submitted /= <<>>

C8_Witness ==
    /\ pc = "done"
    /\ result.v.tag = "Ok"
    /\ Len(submitted) = 1
    /\ Len(watched) = 1
    /\ result.v.v.output.txn_hash = <<"hash", submitted[1]>>
    /\ ~opt.v.local_mode

Collaborators ==
    {"get_account_resource", "node_info", "account_sign_txn", "dry_run",
     "submit_transaction", "watch_txn"}

\* C9: in one invocation the account read, the signing, the dry run and the
\* broadcast each happen at most once; once run has returned (after a
\* rejected dry run, a failed broadcast or a failed watch) it does nothing
\* more, and after a failed watch the transaction was broadcast exactly once.
C9_NoRetry ==
    /\ [](/\ \A c \in Collaborators : Count(c) <= 1
          /\ Len(submitted) <= 1
          /\ Len(watched) <= 1
          /\ (pc = "done" /\ IsErr(result.v, "watch error")) =>
                (Len(submitted) = 1 /\ Count("submit_transaction") = 1))
    /\ [][pc = "done" =>
             \/ pc' = "idle"
             \/ UNCHANGED <<pc, calls, submitted, watched, result, signed_txn>>]_vars

C9_Witness ==
    /\ pc = "done"
    /\ IsErr(result.v, "watch error")
    /\ Len(submitted) = 1
    /\ calls = <<"get_account_resource", "node_info", "account_sign_txn", "dry_run",
                 "submit_transaction", "watch_txn">>

\* C10: the watch is started iff blocking is set and the broadcast
\* succeeded; a blocking run returns the number and id of the block the
\* watch on this transaction's id gave, a non-blocking run returns the
\* transaction id right after the broadcast with no block number or id.
C10_WatchIffBlocking ==
    /\ [](/\ Called("watch_txn") =>
                /\ opt.v.blocking
                /\ ~opt.v.dry_run
                /\ Precedes("submit_transaction", "watch_txn")
          /\ (pc = "done" /\ Called("submit_transaction")) =>
                IF IsErr(result.v, "submit error") THEN ~Called("watch_txn")
                ELSE Called("watch_txn") <=> opt.v.blocking
          /\ (pc = "done" /\ result.v.tag = "Ok" /\ result.v.v.view = "Run") =>
                LET view == result.v.v.output IN
                /\ view.txn_hash = <<"hash", signed_txn.v>>
                /\ IF opt.v.blocking
                   THEN /\ watched = <<view.txn_hash>>
                        /\ \E b \in Blocks :
                              /\ view.block_number = Some(b.header.number)
                              /\ view.block_id = Some(b.header.block_hash)
                   ELSE /\ watched = <<>>
                        /\ Last(calls) = "submit_transaction"
                        /\ view.block_number = None
                        /\ view.block_id = None)
    /\ [][(pc = "submit_transaction" /\ pc' = "done" /\ result'.v.tag = "Ok")
             => ~opt.v.blocking]_vars

C10_Witness ==
    /\ pc = "done"
    /\ result.v.tag = "Ok"
    /\ result.v.v.view = "Run"
    /\ opt.v.blocking
    /\ watched = <<result.v.v.output.txn_hash>>
    /\ result.v.v.output.block_number = Some(10)
    /\ result.v.v.output.block_id = Some("blk10")

\* a step of this invocation of run, as opposed to a step of the chain
RunStep == pc' /= pc \/ calls' /= calls \/ sim_reads' /= sim_reads

DryRunOptionSet == IsSome(opt) /\ opt.v.dry_run

\* C11: with the dry_run option set run never calls submit_transaction and
\* never watches for inclusion; when the dry run answers Executed run returns
\* that output (events, gas used, status, write set) as
\* ExecuteResultView::DryRun; no step of run changes the chain.
C11_DryRunOptionNeverSubmits ==
    /\ [](DryRunOptionSet =>
            /\ ~Called("submit_transaction") /\ ~Called("watch_txn")
            /\ submitted = <<>> /\ watched = <<>>
            /\ pc \notin {"submit_transaction", "watch_txn"}
            /\ (IsSome(output) /\ output.v.status.tag = "Executed") =>
                  /\ pc = "done"
                  /\ result.v.tag = "Ok"
                  /\ result.v.v.view = "DryRun"
                  /\ result.v.v.output = output.v
                  /\ DOMAIN result.v.v.output = {"events", "gas_used", "status", "write_set"})
    /\ [][(DryRunOptionSet /\ RunStep) => UNCHANGED <<account_resource, now_seconds>>]_vars

C11_Witness ==
    /\ DryRunOptionSet
    /\ pc = "done"
    /\ Called("dry_run")
    /\ IsSome(output) /\ output.v.status.tag = "Executed"
    /\ result.v.tag = "Ok" /\ result.v.v.view = "DryRun"

\* C12: a simulation, local or on the node, changes nothing of the chain, and
\* every read it makes returns the state as it was when the simulation
\* started, also when the chain has moved on since.
C12_SimulationReadsOneSnapshot ==
    /\ [](pc = "simulate" =>
            /\ IsSome(state_view)
            /\ \A i \in DOMAIN sim_reads : sim_reads[i] = state_view.v.account_resource)
    /\ [][/\ (pc = "dry_run" /\ pc' = "simulate") =>
                state_view'.v.account_resource = account_resource
          /\ (pc = "simulate" /\ pc' = "simulate") => UNCHANGED state_view
          /\ (pc \in {"dry_run", "simulate"} /\ RunStep) =>
                UNCHANGED <<account_resource, now_seconds>>]_vars

C12_Witness ==
    /\ pc = "simulate"
    /\ Len(sim_reads) = MaxReads
    /\ sim_reads[MaxReads] /= account_resource
    /\ \A i \in DOMAIN sim_reads : sim_reads[i] = state_view.v.account_resource

(***************************************************************************)
(* The string codecs of the wire types (rpc/api/src/types.rs).  A wire     *)
(* string is the sequence of its characters.                                *)
(***************************************************************************)
\* longest string of single characters tried as a byte buffer
MaxStrLen == 4
\* longest byte buffer encoded
MaxBytes == 2

LowerHexDigits == <<"0", "1", "2", "3", "4", "5", "6", "7", "8", "9", "a", "b", "c", "d", "e", "f">>
UpperHexDigits == <<"0", "1", "2", "3", "4", "5", "6", "7", "8", "9", "A", "B", "C", "D", "E", "F">>

\* the value of a hexadecimal digit of either case, -1 for any other character
HexVal(c) ==
    IF \E i \in 1..16 : LowerHexDigits[i] = c
    THEN (CHOOSE i \in 1..16 : LowerHexDigits[i] = c) - 1
    ELSE IF \E i \in 1..16 : UpperHexDigits[i] = c
    THEN (CHOOSE i \in 1..16 : UpperHexDigits[i] = c) - 1
    ELSE -1

\* hex::encode: two lowercase digits per byte
HexEncode(bytes) ==
    [i \in 1..(2 * Len(bytes)) |->
        IF i % 2 = 1 THEN LowerHexDigits[(bytes[(i + 1) \div 2] \div 16) + 1]
        ELSE LowerHexDigits[(bytes[i \div 2] % 16) + 1]]

\* hex::decode: an even number of hexadecimal digits of either case
HexDecode(s) ==
    IF Len(s) % 2 /= 0 THEN Err("hex: odd length", NoDetail)
    ELSE IF \E i \in DOMAIN s : HexVal(s[i]) < 0
    THEN Err("hex: invalid character", NoDetail)
    ELSE Ok([i \in 1..(Len(s) \div 2) |-> HexVal(s[2 * i - 1]) * 16 + HexVal(s[2 * i])])

StartsWith(s, prefix) ==
    Len(s) >= Len(prefix) /\ SubSeq(s, 1, Len(prefix)) = prefix

Str0x == <<"0", "x">>

\* s.strip_prefix("0x").unwrap_or(s)
StripPrefix0x(s) ==
    IF StartsWith(s, Str0x) THEN SubSeq(s, 3, Len(s)) ELSE s

\* the Display of StrView<Vec<u8>> without the "0x"
StrViewBytesDisplay_NoPrefix(bytes) == HexEncode(bytes)

\* lines 1134-1138: Display of StrView<Vec<u8>>
StrViewBytesDisplay(bytes) == Str0x \o HexEncode(bytes)

RECURSIVE TrimStart0x(_)
TrimStart0x(s) == IF StartsWith(s, Str0x) THEN TrimStart0x(SubSeq(s, 3, Len(s))) ELSE s

\* the FromStr of StrView<Vec<u8>> stripping every leading "0x"
StrViewBytesFromStr_StripAll(s) == HexDecode(TrimStart0x(s))

\* lines 1140-1145: FromStr of StrView<Vec<u8>>
StrViewBytesFromStr(s) == HexDecode(StripPrefix0x(s))

ByteValues == {0, 1, 26, 171, 255}
ByteBuffers == SeqsUpTo(ByteValues, MaxBytes)
ByteStringChars == {"0", "x", "1", "a", "B", "g"}
ByteStrings == SeqsUpTo(ByteStringChars, MaxStrLen)

(***************************************************************************)
(* u64, i64, u128 and i128 (impl_str_view_for!, lines 1163-1178)           *)
(***************************************************************************)
IntTypes == {"u64", "i64", "u128", "i128"}
IsSigned(type) == type \in {"i64", "i128"}
\* the width of the type: 64 bits are modelled with WordBits bits, 128 bits
\* with four more
IntBits(type) == IF type \in {"u64", "i64"} THEN WordBits ELSE WordBits + 4
IntMax(type) ==
    IF IsSigned(type) THEN Pow2(IntBits(type) - 1) - 1 ELSE Pow2(IntBits(type)) - 1
IntMin(type) == IF IsSigned(type) THEN 0 - Pow2(IntBits(type) - 1) ELSE 0

DecimalDigits == <<"0", "1", "2", "3", "4", "5", "6", "7", "8", "9">>

\* char::to_digit(10): the value of a decimal digit, -1 for any other character
DigitVal(c) ==
    IF \E i \in 1..10 : DecimalDigits[i] = c
    THEN (CHOOSE i \in 1..10 : DecimalDigits[i] = c) - 1
    ELSE -1

\* the decimal digits of n >= 0, as integer formatting writes them
RECURSIVE ToDecimal(_)
ToDecimal(n) ==
    IF n < 10 THEN <<DecimalDigits[n + 1]>>
    ELSE Append(ToDecimal(n \div 10), DecimalDigits[(n % 10) + 1])

\* the Display of StrView<$t> leaving the sign out
IntDisplay_Unsigned(type, v) == IF v < 0 THEN ToDecimal(0 - v) ELSE ToDecimal(v)

\* lines 1165-1169: Display of StrView<$t> is the integer's own Display
IntDisplay(type, v) == IF v < 0 THEN <<"-">> \o ToDecimal(0 - v) ELSE ToDecimal(v)

\* from_str_radix: the digits are accumulated with checked arithmetic; limit
\* is the largest magnitude the type holds on this side of zero
RECURSIVE ParseDigits(_, _, _, _)
ParseDigits(digits, i, acc, limit) ==
    IF i > Len(digits) THEN Ok(acc)
    ELSE LET d == DigitVal(digits[i])
         IN  IF d < 0 THEN Err("invalid digit found in string", NoDetail)
             ELSE IF acc > (limit - d) \div 10
             THEN Err("number too large or too small to fit in target type", NoDetail)
             ELSE ParseDigits(digits, i + 1, acc * 10 + d, limit)

\* the accumulation stopping at the limit instead of failing
RECURSIVE ParseDigits_Saturating(_, _, _, _)
ParseDigits_Saturating(digits, i, acc, limit) ==
    IF i > Len(digits) THEN Ok(acc)
    ELSE LET d == DigitVal(digits[i])
         IN  IF d < 0 THEN Err("invalid digit found in string", NoDetail)
             ELSE IF acc > (limit - d) \div 10
             THEN ParseDigits_Saturating(digits, i + 1, limit, limit)
             ELSE ParseDigits_Saturating(digits, i + 1, acc * 10 + d, limit)

\* the FromStr of StrView<$t> keeping the nearest value of an out-of-range string
IntFromStr_Saturating(type, s) ==
    IF s = <<>> THEN Err("cannot parse integer from empty string", NoDetail)
    ELSE LET negative == s[1] = "-" /\ IsSigned(type)
             digits == IF s[1] = "+" \/ negative THEN Tail(s) ELSE s
             magnitude == ParseDigits_Saturating(digits, 1, 0, IF negative THEN 0 - IntMin(type) ELSE IntMax(type))
         IN  IF digits = <<>> THEN Err("cannot parse integer from empty string", NoDetail)
             ELSE IF magnitude.tag = "Err" THEN magnitude
             ELSE Ok(IF negative THEN 0 - magnitude.v ELSE magnitude.v)

\* lines 1170-1175: FromStr of StrView<$t> is s.parse::<$t>(): an optional
\* sign ("-" for the signed types only), then decimal digits
IntFromStr(type, s) ==
    IF s = <<>> THEN Err("cannot parse integer from empty string", NoDetail)
    ELSE LET negative == s[1] = "-" /\ IsSigned(type)
             digits == IF s[1] = "+" \/ negative THEN Tail(s) ELSE s
             magnitude == ParseDigits(digits, 1, 0, IF negative THEN 0 - IntMin(type) ELSE IntMax(type))
         IN  IF digits = <<>> THEN Err("cannot parse integer from empty string", NoDetail)
             ELSE IF magnitude.tag = "Err" THEN magnitude
             ELSE Ok(IF negative THEN 0 - magnitude.v ELSE magnitude.v)

\* the values encoded: zero, the ends of the range and their neighbours
IntValues(type) ==
    {v \in {IntMin(type), IntMin(type) + 1, 0 - 10, 0 - 1, 0, 1, 9, 10, IntMax(type) - 1, IntMax(type)} :
        IntMin(type) <= v /\ v <= IntMax(type)}

\* the strings decoded: a sign or none, a leading zero or none, the digits of
\* a magnitude at, next to or beyond the end of a range (or no digit at all,
\* n = -1), and a trailing character or none
IntMagnitudes ==
    {0 - 1, 0, 1, 9, 10} \cup
    UNION {{IntMax(t), IntMax(t) + 1, IntMax(t) + 2} : t \in IntTypes} \cup
    {2 * Pow2(WordBits + 4)}
IntStringParts ==
    [sign : {<<>>, <<"+">>, <<"-">>}, zeros : {<<>>, <<"0">>}, n : IntMagnitudes,
     junk : {<<>>, <<"a">>, <<" ">>}]
IntString(p) == p.sign \o p.zeros \o (IF p.n < 0 THEN <<>> ELSE ToDecimal(p.n)) \o p.junk
IntStrings == {IntString(p) : p \in IntStringParts}

(***************************************************************************)
(* Module ids, function ids and ByteCodeOrScriptFunction                   *)
(***************************************************************************)
\* the longest reference string tried, in tokens
MaxTokens == 4

StrSep == <<":", ":">>

\* the places where "::" starts in s
SeparatorsIn(s) == {i \in 1..(Len(s) - 1) : s[i] = ":" /\ s[i + 1] = ":"}

SetMax(S) == CHOOSE x \in S : \A y \in S : y <= x
SetMin(S) == CHOOSE x \in S : \A y \in S : x <= y

\* s.rsplitn(2, "::").collect(): s cut at the last "::", the right part first
RSplitN2(s) ==
    IF SeparatorsIn(s) = {} THEN <<s>>
    ELSE LET i == SetMax(SeparatorsIn(s))
         IN  <<SubSeq(s, i + 2, Len(s)), SubSeq(s, 1, i - 1)>>

\* s.split("::").collect(): s cut at every "::", from the left
RECURSIVE Split(_)
Split(s) ==
    IF SeparatorsIn(s) = {} THEN <<s>>
    ELSE LET i == SetMin(SeparatorsIn(s))
         IN  <<SubSeq(s, 1, i - 1)>> \o Split(SubSeq(s, i + 2, Len(s)))

Letters ==
    {"a", "b", "c", "d", "e", "f", "g", "h", "i", "j", "k", "l", "m", "n", "o", "p", "q",
     "r", "s", "t", "u", "v", "w", "x", "y", "z",
     "A", "B", "C", "D", "E", "F", "G", "H", "I", "J", "K", "L", "M", "N", "O", "P", "Q",
     "R", "S", "T", "U", "V", "W", "X", "Y", "Z"}

IsIdentifierChar(c) == c = "_" \/ c \in Letters \/ DigitVal(c) >= 0

\* Identifier::new: a letter and then letters, digits and underscores, or an
\* underscore and then at least one of them
IdentifierNew(s) ==
    IF /\ s /= <<>>
       /\ \A i \in DOMAIN s : IsIdentifierChar(s[i])
       /\ (s[1] \in Letters \/ (s[1] = "_" /\ Len(s) > 1))
    THEN Ok(s)
    ELSE Err("Invalid identifier", NoDetail)

\* parse::<AccountAddress>(): "0x" and one to AddressHexLen hexadecimal
\* digits of either case; the address is its AddressHexLen digits
AccountAddressFromStr(s) ==
    LET digits == SubSeq(s, 3, Len(s))
    IN  IF /\ StartsWith(s, Str0x)
           /\ digits /= <<>> /\ Len(digits) <= AddressHexLen
           /\ \A i \in DOMAIN digits : HexVal(digits[i]) >= 0
        THEN Ok([i \in 1..AddressHexLen |->
                    IF i <= AddressHexLen - Len(digits) THEN 0
                    ELSE HexVal(digits[i - (AddressHexLen - Len(digits))])])
        ELSE Err("invalid account address", NoDetail)

\* Display of AccountAddress writing all its digits
AccountAddressDisplay_Full(address) ==
    Str0x \o [i \in 1..AddressHexLen |-> LowerHexDigits[address[i] + 1]]

\* Display of AccountAddress: "0x" and the lowercase digits from the first
\* one that is not zero, "0x0" for the zero address
AccountAddressDisplay(address) ==
    LET nonzero == {i \in 1..AddressHexLen : address[i] /= 0}
        first == IF nonzero = {} THEN AddressHexLen ELSE SetMin(nonzero)
    IN  Str0x \o [i \in 1..(AddressHexLen - first + 1) |->
                     LowerHexDigits[address[first + i - 1] + 1]]

\* Display of ModuleId
ModuleIdDisplay(module) == AccountAddressDisplay(module.address) \o StrSep \o module.name

\* lines 1069-1073: Display of StrView<ModuleId>
ModuleIdViewDisplay(module) == ModuleIdDisplay(module)

\* FromStr of StrView<ModuleId> cutting at the first "::" only
ModuleIdViewFromStr_AnyParts(s) ==
    LET parts == Split(s)
    IN  IF Len(parts) < 2 THEN Err("invalid module id", NoDetail)
        ELSE LET module_addr == AccountAddressFromStr(parts[1])
                 module_name == IdentifierNew(parts[Len(parts)])
             IN  IF module_addr.tag = "Err" THEN module_addr
                 ELSE IF module_name.tag = "Err" THEN module_name
                 ELSE Ok([address |-> module_addr.v, name |-> module_name.v])

\* lines 1075-1087: FromStr of StrView<ModuleId>
ModuleIdViewFromStr(s) ==
    LET parts == Split(s)
    IN  IF Len(parts) /= 2 THEN Err("invalid module id", NoDetail)
        ELSE LET module_addr == AccountAddressFromStr(parts[1])
                 module_name == IdentifierNew(parts[2])
             IN  IF module_addr.tag = "Err" THEN module_addr
                 ELSE IF module_name.tag = "Err" THEN module_name
                 ELSE Ok([address |-> module_addr.v, name |-> module_name.v])

\* Display of FunctionId
FunctionIdDisplay(id) == ModuleIdDisplay(id.module) \o StrSep \o id.function

\* lines 1048-1052: Display of FunctionIdView
FunctionIdViewDisplay(id) == FunctionIdDisplay(id)

\* lines 1053-1067: FromStr of FunctionIdView
FunctionIdViewFromStr(s) ==
    LET splits == RSplitN2(s)
    IN  IF Len(splits) /= 2 THEN Err("invalid script function id", NoDetail)
        ELSE LET module_id == ModuleIdViewFromStr(splits[2])
                 function == IdentifierNew(splits[1])
             IN  IF module_id.tag = "Err" THEN module_id
                 ELSE IF function.tag = "Err" THEN function
                 ELSE Ok([module |-> module_id.v, function |-> function.v])

ByteCode(c) == [variant |-> "ByteCode", code |-> c]
ScriptFunction(id) == [variant |-> "ScriptFunction", id |-> id]

\* Display of ByteCodeOrScriptFunction writing the function before its module
ByteCodeOrScriptFunctionDisplay_FunctionFirst(v) ==
    IF v.variant = "ByteCode" THEN Str0x \o HexEncode(v.code)
    ELSE v.id.function \o StrSep \o ModuleIdDisplay(v.id.module)

\* lines 301-310: Display of ByteCodeOrScriptFunction
ByteCodeOrScriptFunctionDisplay(v) ==
    IF v.variant = "ByteCode" THEN Str0x \o HexEncode(v.code)
    ELSE ModuleIdDisplay(v.id.module) \o StrSep \o v.id.function

\* FromStr of ByteCodeOrScriptFunction deciding by the "0x" prefix
ByteCodeOrScriptFunctionFromStr_ByPrefix(s) ==
    IF StartsWith(s, Str0x)
    THEN LET code == HexDecode(StripPrefix0x(s))
         IN  IF code.tag = "Err" THEN code ELSE Ok(ByteCode(code.v))
    ELSE LET id == FunctionIdViewFromStr(s)
         IN  IF id.tag = "Err" THEN id ELSE Ok(ScriptFunction(id.v))

\* lines 312-329: FromStr of ByteCodeOrScriptFunction
ByteCodeOrScriptFunctionFromStr(s) ==
    LET splits == RSplitN2(s)
    IN  IF Len(splits) = 2
        THEN LET module_id == ModuleIdViewFromStr(splits[2])
                 function == IdentifierNew(splits[1])
             IN  IF module_id.tag = "Err" THEN module_id
                 ELSE IF function.tag = "Err" THEN function
                 ELSE Ok(ScriptFunction([module |-> module_id.v, function |-> function.v]))
        ELSE LET code == HexDecode(StripPrefix0x(s))
             IN  IF code.tag = "Err" THEN code ELSE Ok(ByteCode(code.v))

\* the account address whose last digits are low_digits
AddressOf(low_digits) ==
    [i \in 1..AddressHexLen |->
        IF i <= AddressHexLen - Len(low_digits) THEN 0
        ELSE low_digits[i - (AddressHexLen - Len(low_digits))]]

Addresses ==
    {AddressOf(<<>>), AddressOf(<<1>>), AddressOf(<<10, 11>>),
     [i \in 1..AddressHexLen |-> 10 + (i % 2)]}

StrM == <<"M">>
StrF == <<"f">>
StrAccount == <<"A", "c", "c", "o", "u", "n", "t">>
StrCreateAccount == <<"c", "r", "e", "a", "t", "e", "_", "a", "c", "c", "o", "u", "n", "t">>
ModuleIds == [address : Addresses, name : {StrM, StrAccount}]
FunctionIds == [module : ModuleIds, function : {StrF, StrCreateAccount}]
ByteCodeOrScriptFunctions ==
    {ByteCode(c) : c \in ByteBuffers} \cup {ScriptFunction(id) : id \in FunctionIds}

\* the reference strings decoded: up to MaxTokens pieces put together, and
\* the strings of test_script_data (lines 1275-1292)
RefTokens ==
    {<<"0", "x", "1">>, <<"0", "x">>, <<"a", "B">>, <<"M">>, <<":", ":">>, <<":">>,
     <<":", ":", "M">>, <<":", ":", "f">>}

RECURSIVE Concat(_)
Concat(pieces) == IF pieces = <<>> THEN <<>> ELSE Head(pieces) \o Concat(Tail(pieces))

Str0x1AccountCreateAccount == <<"0", "x", "1", ":", ":", "A", "c", "c", "o", "u", "n", "t", ":", ":", "c", "r", "e", "a", "t", "e", "_", "a", "c", "c", "o", "u", "n", "t">>
Str0x1MFunc1 == <<"0", "x", "1", ":", ":", "M", ":", ":", "f", "u", "n", "c", "1">>
Str0x123432ab34 == <<"0", "x", "1", "2", "3", "4", "3", "2", "a", "b", "3", "4">>
Str0x1234ab == <<"0", "x", "1", "2", "3", "4", "a", "b">>
RefStrings ==
    {Concat(pieces) : pieces \in SeqsUpTo(RefTokens, MaxTokens)} \cup
    {Str0x1AccountCreateAccount, Str0x1MFunc1, Str0x123432ab34, Str0x1234ab}

RefTypes == {"module_id", "function_id", "code"}

(***************************************************************************)
(* The conversions as steps: a value is encoded and the string decoded,    *)
(* or a string is decoded and the value encoded again; one conversion per  *)
(* behaviour                                                               *)
(***************************************************************************)
WireTypes == {"bytes"} \cup IntTypes \cup RefTypes

\* Display of StrView<T>
Display(type, v) ==
    CASE type = "bytes" -> StrViewBytesDisplay(v)
      [] type \in IntTypes -> IntDisplay(type, v)
      [] type = "module_id" -> ModuleIdViewDisplay(v)
      [] type = "function_id" -> FunctionIdViewDisplay(v)
      [] type = "code" -> ByteCodeOrScriptFunctionDisplay(v)

\* FromStr of StrView<T>
FromStr(type, s) ==
    CASE type = "bytes" -> StrViewBytesFromStr(s)
      [] type \in IntTypes -> IntFromStr(type, s)
      [] type = "module_id" -> ModuleIdViewFromStr(s)
      [] type = "function_id" -> FunctionIdViewFromStr(s)
      [] type = "code" -> ByteCodeOrScriptFunctionFromStr(s)

\* the values encoded, by type
WireValues(type) ==
    CASE type = "bytes" -> ByteBuffers
      [] type \in IntTypes -> IntValues(type)
      [] type = "module_id" -> ModuleIds
      [] type = "function_id" -> FunctionIds
      [] type = "code" -> ByteCodeOrScriptFunctions

\* the strings decoded, by type
WireStrings(type) ==
    CASE type = "bytes" -> ByteStrings
      [] type \in IntTypes -> IntStrings
      [] type \in RefTypes -> RefStrings

\* lines 1015-1025: Serialize of StrView<T> writes the Display as a string
StrViewSerialize(type, v) == [json |-> "String", chars |-> Display(type, v)]

\* lines 1027-1040: Deserialize of StrView<T> reads a string and parses it
StrViewDeserialize(type, wire) ==
    IF wire.json = "String" THEN FromStr(type, wire.chars)
    ELSE Err("invalid type: expected a string", NoDetail)

\* what one conversion of string s leaves: the parse, the Display of the parsed
\* value and the parse of that Display
Conversion(op, type, x, s) ==
    LET parsed == StrViewDeserialize(type, [json |-> "String", chars |-> s])
        shown == IF parsed.tag = "Ok" THEN Some(StrViewSerialize(type, parsed.v)) ELSE None
    IN  [op |-> op, type |-> type, x |-> x, s |-> s, parsed |-> parsed, shown |-> shown,
         reparsed |-> IF IsSome(shown) THEN Some(StrViewDeserialize(type, shown.v)) ELSE None]

run_vars == <<account_resource, now_seconds, pc, opt, sender, compile_units, bytedata,
              txn_payload, read_resource, node_now, raw_txn, signed_txn, dry_run_input,
              output, submitted, watched, calls, result, prev_seq, state_view, sim_reads>>

\* a value is serialized and the string read back
EncodeDecode ==
    /\ codec = CodecIdle
    /\ \E type \in WireTypes : \E x \in WireValues(type) :
         LET wire == StrViewSerialize(type, x)
         IN  codec' = Conversion("encode", type, Some(x), wire.chars)
    /\ UNCHANGED run_vars

\* a string is read and the value serialized again
DecodeEncode ==
    /\ codec = CodecIdle
    /\ \E type \in WireTypes : \E s \in WireStrings(type) :
         codec' = Conversion("decode", type, None, s)
    /\ UNCHANGED run_vars

(***************************************************************************)
(* ArgumentsView: the arguments of a script on the wire (lines 176-222)    *)
(***************************************************************************)
\* longest argument list tried
MaxArgs == 2

JsonArray(items) == [json |-> "Array", items |-> items]

\* lines 176-181: the two variants of ArgumentsView
HumanReadable(vs) == [variant |-> "HumanReadable", vs |-> vs]
BCS(vs) == [variant |-> "BCS", vs |-> vs]

\* lines 183-192: ArgumentsView::to_bcs_bytes
to_bcs_bytes(view) ==
    IF view.variant = "HumanReadable" THEN convert_txn_args(view.vs) ELSE view.vs

StrTrue == <<"t", "r", "u", "e">>
StrFalse == <<"f", "a", "l", "s", "e">>
StrU8 == <<"u", "8">>
StrU64 == <<"u", "6", "4">>
StrXQuote == <<"x", "\"">>

\* the leading decimal digits of s
NumberPrefix(s) ==
    LET stops == {i \in DOMAIN s : DigitVal(s[i]) < 0}
    IN  IF stops = {} THEN s ELSE SubSeq(s, 1, SetMin(stops) - 1)

\* line 1129: parse_transaction_argument reads one literal: true or false, a
\* number with an optional type suffix (u64 without one), "0x" and the digits
\* of an address, or x"..." with the hexadecimal digits of a byte vector
ParseTransactionArgument(s) ==
    CASE s = StrTrue -> Ok([ty |-> "Bool", val |-> 1])
      [] s = StrFalse -> Ok([ty |-> "Bool", val |-> 0])
      [] StartsWith(s, Str0x) ->
            LET address == AccountAddressFromStr(s)
            IN  IF address.tag = "Ok" THEN Ok([ty |-> "Address", val |-> address.v])
                ELSE address
      [] StartsWith(s, StrXQuote) ->
            LET bytes == HexDecode(SubSeq(s, 3, Len(s) - 1))
            IN  IF Len(s) < 3 \/ Last(s) /= "\""
                THEN Err("unrecognized token", NoDetail)
                ELSE IF bytes.tag = "Ok" THEN Ok([ty |-> "U8Vector", val |-> bytes.v])
                ELSE bytes
      [] s /= <<>> /\ ~StartsWith(s, Str0x) /\ DigitVal(s[1]) >= 0 ->
            LET digits == NumberPrefix(s)
                suffix == SubSeq(s, Len(digits) + 1, Len(s))
                ty == CASE suffix = <<>> \/ suffix = StrU64 -> "U64"
                        [] suffix = StrU8 -> "U8"
                        [] OTHER -> "none"
                n == ParseDigits(digits, 1, 0, IF ty = "U8" THEN 255 ELSE U64Max)
            IN  IF ty = "none" THEN Err("unrecognized token", NoDetail)
                ELSE IF n.tag = "Ok" THEN Ok([ty |-> ty, val |-> n.v])
                ELSE n
      [] OTHER -> Err("unrecognized token", NoDetail)

\* lines 1126-1132 and 1027-1040: a TransactionArgumentView is read from a
\* string
TransactionArgumentViewDeserialize(wire) ==
    IF wire.json = "String" THEN ParseTransactionArgument(wire.chars)
    ELSE Err("invalid type: expected a string", NoDetail)

\* the Deserialize of ArgumentsView reading the strings as the hexadecimal
\* bytes of the arguments
ArgumentsViewDeserialize_AsBytes(wire) ==
    IF wire.json /= "Array" THEN Err("invalid type: expected a sequence", NoDetail)
    ELSE LET items == [i \in DOMAIN wire.items |-> StrViewDeserialize("bytes", wire.items[i])]
             failed == {i \in DOMAIN items : items[i].tag = "Err"}
         IN  IF failed /= {} THEN items[SetMin(failed)]
             ELSE Ok(BCS([i \in DOMAIN items |-> items[i].v]))

\* lines 197-205: Deserialize of ArgumentsView reads a list of
\* TransactionArgumentView and always gives the HumanReadable variant
ArgumentsViewDeserialize(wire) ==
    IF wire.json /= "Array" THEN Err("invalid type: expected a sequence", NoDetail)
    ELSE LET items == [i \in DOMAIN wire.items |-> TransactionArgumentViewDeserialize(wire.items[i])]
             failed == {i \in DOMAIN items : items[i].tag = "Err"}
         IN  IF failed /= {} THEN items[SetMin(failed)]
             ELSE Ok(HumanReadable([i \in DOMAIN items |-> items[i].v]))

\* lines 208-222: Serialize of ArgumentsView writes the BCS bytes of each
\* argument as a string, for both variants
ArgumentsViewSerialize(view) ==
    IF view.variant = "HumanReadable"
    THEN LET data == to_bcs_bytes(view)
         IN  JsonArray([i \in DOMAIN data |-> StrViewSerialize("bytes", data[i])])
    ELSE JsonArray([i \in DOMAIN view.vs |-> StrViewSerialize("bytes", view.vs[i])])

\* the argument literals read: one of each kind, a number out of range, the
\* address 0x1 written short, in full and in capitals, the hexadecimal bytes
\* of the u8 argument 7, and a word that is no literal
ArgumentLiterals ==
    {<<"7">>, <<"7", "u", "8">>, <<"2", "5", "6", "u", "8">>, StrTrue, StrFalse,
     <<"0", "x", "1">>, Str0x \o [i \in 1..AddressHexLen |-> IF i = AddressHexLen THEN "1" ELSE "0"],
     <<"0", "x", "A", "B">>, <<"0", "x", "0", "7">>,
     <<"x", "\"", "a", "b", "\"">>, <<"a", "b", "c">>}

\* the arguments written
ArgumentValues ==
    {[ty |-> "U8", val |-> 7], [ty |-> "U64", val |-> 7], [ty |-> "U64", val |-> U64Max],
     [ty |-> "Bool", val |-> 1], [ty |-> "Address", val |-> AddressOf(<<1>>)],
     [ty |-> "U8Vector", val |-> <<171>>]}

ArgumentsViews ==
    {HumanReadable(vs) : vs \in SeqsUpTo(ArgumentValues, MaxArgs)} \cup
    {BCS(vs) : vs \in SeqsUpTo({<<>>, <<7>>, <<0, 1>>}, MaxArgs)}

\* an argument list arrives in a request, is read, and is written again
ArgumentsDecode ==
    /\ codec = CodecIdle
    /\ \E literals \in SeqsUpTo(ArgumentLiterals, MaxArgs) :
         LET wire == JsonArray([i \in DOMAIN literals |-> [json |-> "String", chars |-> literals[i]]])
             parsed == ArgumentsViewDeserialize(wire)
         IN  codec' = [op |-> "arguments_decode", s |-> literals, parsed |-> parsed,
                       shown |-> IF parsed.tag = "Ok" THEN Some(ArgumentsViewSerialize(parsed.v))
                                 ELSE None]
    /\ UNCHANGED run_vars

\* an argument list is written to the wire
ArgumentsEncode ==
    /\ codec = CodecIdle
    /\ \E view \in ArgumentsViews :
         codec' = [op |-> "arguments_encode", x |-> view, bytes |-> to_bcs_bytes(view),
                   shown |-> ArgumentsViewSerialize(view)]
    /\ UNCHANGED run_vars

(***************************************************************************)
(* TransactionStatus to TransactionVMStatus (lines 700-756)                *)
(***************************************************************************)
\* where an abort or a failure happened: in the script or in a module
AbortLocations == {"Script", AbortLocation1}
\* u16 values
U16Values == {0, 1, 65535}

\* the statuses converted: every variant, with more than one value in every
\* field
ConvertedKeptVMStatuses ==
    {[kept |-> "Executed"], [kept |-> "OutOfGas"], [kept |-> "MiscellaneousError"]}
    \cup {[kept |-> "MoveAbort", location |-> l, abort_code |-> c] :
            l \in AbortLocations, c \in {0, 42, U64Max}}
    \cup {[kept |-> "ExecutionFailure", location |-> l, function |-> f, code_offset |-> o] :
            l \in AbortLocations, f \in U16Values, o \in U16Values}
ConvertedDiscardedVMStatuses == {0, 1, 4, 17}
ConvertedStatuses ==
    {[st |-> "Keep", k |-> k] : k \in ConvertedKeptVMStatuses}
    \cup {[st |-> "Discard", d |-> d] : d \in ConvertedDiscardedVMStatuses}

\* a status of the VM is converted for the wire
ConvertStatus ==
    /\ codec = CodecIdle
    /\ \E s \in ConvertedStatuses :
         codec' = [op |-> "status", x |-> s, v |-> FromTransactionStatus(s)]
    /\ UNCHANGED run_vars

(***************************************************************************)
(* TransactionRequest on the wire (lines 109-174, 224-293)                 *)
(***************************************************************************)
JsonNull == [json |-> "Null"]
JsonNumber(n) == [json |-> "Number", n |-> n]
JsonString(chars) == [json |-> "String", chars |-> chars]
JsonObject(fields) == [json |-> "Object", fields |-> fields]

\* the derived Serialize of Option<u64> and Option<u8>: the number itself,
\* or null
OptionNumberSerialize(o) == IF IsSome(o) THEN JsonNumber(o.v) ELSE JsonNull

\* the derived Serialize of Option<String>, and of Option<AccountAddress>
\* through its Display
OptionStringSerialize(o) == IF IsSome(o) THEN JsonString(o.v) ELSE JsonNull

\* lines 1088-1101: Display and FromStr of TypeTagView, for the primitive tags
TypeTagNames == [U8 |-> StrU8, U64 |-> StrU64, Bool |-> <<"b", "o", "o", "l">>]
TypeTagDisplay(tag) == TypeTagNames[tag]
TypeTagFromStr(s) ==
    IF \E tag \in DOMAIN TypeTagNames : TypeTagNames[tag] = s
    THEN Ok(CHOOSE tag \in DOMAIN TypeTagNames : TypeTagNames[tag] = s)
    ELSE Err("invalid type tag", NoDetail)

\* lines 224-230: the derived Serialize of ScriptData
ScriptDataSerialize(data) ==
    JsonObject([code |-> StrViewSerialize("code", data.code),
                type_args |-> JsonArray([i \in DOMAIN data.type_args |->
                                            JsonString(TypeTagDisplay(data.type_args[i]))]),
                args |-> ArgumentsViewSerialize(data.args)])

\* lines 224-230: the derived Deserialize of ScriptData
ScriptDataDeserialize(wire) ==
    LET code == StrViewDeserialize("code", wire.fields.code)
        type_args == [i \in DOMAIN wire.fields.type_args.items |->
                        TypeTagFromStr(wire.fields.type_args.items[i].chars)]
        failed == {i \in DOMAIN type_args : type_args[i].tag = "Err"}
        args == ArgumentsViewDeserialize(wire.fields.args)
    IN  IF code.tag = "Err" THEN code
        ELSE IF failed /= {} THEN type_args[SetMin(failed)]
        ELSE IF args.tag = "Err" THEN args
        ELSE Ok([code |-> code.v,
                 type_args |-> [i \in DOMAIN type_args |-> type_args[i].v],
                 args |-> args.v])

\* lines 249-259: ScriptData::into_data
into_data(data) ==
    LET ty_args == data.type_args
        args == to_bcs_bytes(data.args)
    IN  IF data.code.variant = "ByteCode"
        THEN [kind |-> "Script", script |-> ScriptNew(data.code.code, ty_args, args)]
        ELSE [kind |-> "ScriptFunction",
              script_function |-> ScriptFunctionNew(data.code.id.module, data.code.id.function,
                                                    ty_args, args)]

\* lines 109-136: the derived Serialize of TransactionRequest
TransactionRequestFields(request) ==
    [sender |-> IF IsSome(request.sender)
                THEN JsonString(AccountAddressDisplay(request.sender.v)) ELSE JsonNull,
     sequence_number |-> OptionNumberSerialize(request.sequence_number),
     script |-> IF IsSome(request.script) THEN ScriptDataSerialize(request.script.v)
                ELSE JsonNull,
     modules |-> JsonArray([i \in DOMAIN request.modules |->
                               StrViewSerialize("bytes", request.modules[i])]),
     max_gas_amount |-> OptionNumberSerialize(request.max_gas_amount),
     gas_unit_price |-> OptionNumberSerialize(request.gas_unit_price),
     gas_token_code |-> OptionStringSerialize(request.gas_token_code),
     expiration_timestamp_secs |-> OptionNumberSerialize(request.expiration_timestamp_secs),
     chain_id |-> OptionNumberSerialize(request.chain_id)]
TransactionRequestSerialize(request) == JsonObject(TransactionRequestFields(request))

\* lines 168-174: the derived Serialize of DryRunTransactionRequest: the
\* fields of the transaction, flattened, and the sender's public key
DryRunTransactionRequestSerialize(request) ==
    JsonObject([name \in DOMAIN TransactionRequestFields(request.transaction)
                             \cup {"sender_public_key"} |->
        IF name = "sender_public_key"
        THEN IF IsSome(request.sender_public_key)
             THEN JsonString(Str0x \o HexEncode(AddressBytes(request.sender_public_key.v[2])))
             ELSE JsonNull
        ELSE TransactionRequestFields(request.transaction)[name]])

\* the script of a request as the node reads it and turns it into a payload
RemotePayload(wire) ==
    IF wire.fields.script.json = "Null" THEN Ok(None)
    ELSE LET data == ScriptDataDeserialize(wire.fields.script)
         IN  IF data.tag = "Err" THEN data ELSE Ok(Some(into_data(data.v)))

\* the transactions put on the wire
WireSender == AddressOf(<<10>>)
WireTypeArgs == {<<>>, <<"U8">>}
WireArgs ==
    {<<>>, <<[ty |-> "U8", val |-> 7]>>, <<[ty |-> "U64", val |-> 7], [ty |-> "Bool", val |-> 1]>>,
     <<[ty |-> "Address", val |-> AddressOf(<<1>>)]>>,
     <<[ty |-> "Address", val |-> AddressOf(<<1>>)], [ty |-> "U8Vector", val |-> <<171>>]>>}
WireFunctionId == [module |-> [address |-> AddressOf(<<1>>), name |-> StrAccount], function |-> StrCreateAccount]
WireModules == {<<<<1>>>>, <<<<1>>, <<26, 171>>>>, <<<<26, 171>>, <<1>>>>}
WirePayloads ==
    {ScriptPayload(<<26, 171>>, ty_args, args) : ty_args \in WireTypeArgs, args \in WireArgs}
    \cup {ScriptFunctionPayload(WireFunctionId, ty_args, args) : ty_args \in WireTypeArgs, args \in WireArgs}
    \cup {[kind |-> "Package",
           modules |-> [i \in DOMAIN codes |-> ModuleNew(codes[i])],
           init_script |-> None] : codes \in WireModules}
    \cup {[kind |-> "Package",
           modules |-> [i \in DOMAIN codes.m |-> ModuleNew(codes.m[i])],
           init_script |-> Some(ScriptFunctionNew(WireFunctionId.module, WireFunctionId.function,
                                                  <<>>, convert_txn_args(codes.args)))] :
            codes \in [m : WireModules, args : WireArgs]}
WireGasTokenCode == <<"0", "x", "1", ":", ":", "S", "T", "C", ":", ":", "S", "T", "C">>
WireTransactions ==
    {[sender |-> WireSender, sequence_number |-> seq.n, payload |-> payload,
      max_gas_amount |-> DefaultMaxGasAmount, gas_unit_price |-> DefaultGasPrice,
      gas_token_code |-> WireGasTokenCode, expiration_timestamp_secs |-> seq.e,
      chain_id |-> ChainId] :
        payload \in WirePayloads, seq \in [n : {0, 4}, e : {4600, U64Max}]}

\* lines 232-247: a raw transaction is turned into a request, the request is
\* written to the wire, as it is or in a dry run request, and the node reads
\* the script back
RequestOnWire ==
    /\ codec = CodecIdle
    /\ \E raw \in WireTransactions : \E dry_run \in BOOLEAN :
         LET request == TransactionRequestFrom(raw)
             wire == IF dry_run
                     THEN DryRunTransactionRequestSerialize(DryRunTransactionRequest(SignedUserTransaction(raw)))
                     ELSE TransactionRequestSerialize(request)
         IN  codec' = [op |-> "request", raw |-> raw, dry_run |-> dry_run,
                       request |-> request, wire |-> wire, remote |-> RemotePayload(wire)]
    /\ UNCHANGED run_vars

(***************************************************************************)
(* The index of a transaction in its block (lines 526-561, 676-698)        *)
(***************************************************************************)
\* most transactions in a block
MaxBlockTxns == 3

\* the ids of user transactions, and the id of a block's metadata transaction
UserTxnIds == {"t1", "t2", "t3"}
MetadataTxnId == "meta"

\* block.transactions(): the user transactions of the block, by id
BlockBodies == SeqsUpTo(UserTxnIds, MaxBlockTxns)

\* Transaction: the block metadata transaction or a user transaction
IndexedTransactions ==
    {[kind |-> "BlockMetadata", id |-> MetadataTxnId]}
    \cup {[kind |-> "UserTransaction", id |-> id] : id \in UserTxnIds}

\* Iterator::position: the first place, from 0, whose id is the hash
Position(transactions, transaction_hash) ==
    LET places == {i \in DOMAIN transactions : transactions[i] = transaction_hash}
    IN  IF places = {} THEN None ELSE Some(SetMin(places) - 1)

\* lines 531-546: transaction_index of TransactionView::new
TransactionViewIndex(txn, transactions) ==
    IF txn.kind = "BlockMetadata" THEN Ok(0)
    ELSE LET position == Position(transactions, txn.id)
         IN  IF IsNone(position) THEN Err("cannot find txn in block", txn.id)
             ELSE Ok(1 + position.v)

\* lines 681-691: transaction_index of TransactionInfoView::new, from the
\* hash of the transaction info
TransactionInfoViewIndex(transaction_hash, transactions) ==
    LET index == Position(transactions, transaction_hash)
    IN  Ok(IF IsSome(index) THEN index.v + 1 ELSE 0)

\* the views of a transaction and of its info are built over a block
IndexInBlock ==
    /\ codec = CodecIdle
    /\ \E txn \in IndexedTransactions : \E transactions \in BlockBodies :
         codec' = [op |-> "index", txn |-> txn, transactions |-> transactions,
                   view |-> TransactionViewIndex(txn, transactions),
                   info |-> TransactionInfoViewIndex(txn.id, transactions)]
    /\ UNCHANGED run_vars

InitCodec ==
    /\ account_resource = None
    /\ now_seconds = 1000
    /\ pc = "idle"
    /\ opt = None
    /\ sender = None
    /\ compile_units = None
    /\ bytedata = None
    /\ txn_payload = None
    /\ read_resource = None
    /\ node_now = None
    /\ raw_txn = None
    /\ signed_txn = None
    /\ dry_run_input = None
    /\ output = None
    /\ submitted = <<>>
    /\ watched = <<>>
    /\ calls = <<>>
    /\ result = None
    /\ prev_seq = None
    /\ state_view = None
    /\ sim_reads = <<>>
    /\ codec = CodecIdle

NextCodec ==
    \/ EncodeDecode
    \/ DecodeEncode
    \/ ArgumentsDecode
    \/ ArgumentsEncode
    \/ ConvertStatus
    \/ RequestOnWire
    \/ IndexInBlock

SpecCodec == InitCodec /\ [][NextCodec]_vars

(***************************************************************************)
(* Properties of the string codecs                                         *)
(***************************************************************************)
Encoded(type) == codec.op = "encode" /\ codec.type = type
Decoded(type) == codec.op = "decode" /\ codec.type = type

IsLowerHex(c) == \E i \in 1..16 : LowerHexDigits[i] = c
IsHex(c) == IsLowerHex(c) \/ \E i \in 1..16 : UpperHexDigits[i] = c

\* C13: a byte buffer x, the empty one included, is written as "0x" followed
\* by two lowercase hexadecimal digits per byte, high digit first, and reading
\* that string gives x back.
C13_BytesEncodeAsLowerHexAndRoundTrip ==
    Encoded("bytes") =>
        LET x == codec.x.v
            s == codec.s
        IN  /\ Len(s) = 2 + 2 * Len(x)
            /\ s[1] = "0" /\ s[2] = "x"
            /\ \A i \in 3..Len(s) : IsLowerHex(s[i])
            /\ \A i \in DOMAIN x : 16 * HexVal(s[2 * i + 1]) + HexVal(s[2 * i + 2]) = x[i]
            /\ codec.parsed.tag = "Ok"
            /\ codec.parsed.v = x

C13_Witness ==
    /\ Encoded("bytes") /\ codec.x.v = <<171, 1>>
    /\ codec.s = <<"0", "x", "a", "b", "0", "1">>
    /\ codec.parsed = Ok(<<171, 1>>)

C13_WitnessEmpty ==
    Encoded("bytes") /\ codec.x.v = <<>> /\ codec.s = Str0x /\ codec.parsed = Ok(<<>>)

\* the text left of s after one leading "0x", when there is one, is taken off
Rest(s) == IF Len(s) >= 2 /\ s[1] = "0" /\ s[2] = "x" THEN SubSeq(s, 3, Len(s)) ELSE s

\* C14: reading a byte buffer takes at most one leading "0x" off and fails
\* exactly when what is left has odd length or holds a character that is not
\* a hexadecimal digit; otherwise it gives the bytes the digits spell.
C14_BytesDecodeFailsExactlyOnOddOrNonHex ==
    Decoded("bytes") =>
        LET rest == Rest(codec.s)
            bad == Len(rest) % 2 = 1 \/ \E i \in DOMAIN rest : ~IsHex(rest[i])
        IN  /\ (codec.parsed.tag = "Err") <=> bad
            /\ ~bad =>
                 /\ codec.parsed.tag = "Ok"
                 /\ Len(codec.parsed.v) * 2 = Len(rest)
                 /\ \A i \in DOMAIN codec.parsed.v :
                      codec.parsed.v[i] = 16 * HexVal(rest[2 * i - 1]) + HexVal(rest[2 * i])

\* "0x0x" fails: only one prefix is taken off
C14_Witness ==
    /\ Decoded("bytes") /\ codec.s = <<"0", "x", "0", "x">>
    /\ codec.parsed.tag = "Err"

C14_WitnessUnprefixed ==
    Decoded("bytes") /\ codec.s = <<"1", "B">> /\ codec.parsed = Ok(<<27>>)

\* the number a string of decimal digits spells
RECURSIVE Spelled(_)
Spelled(digits) ==
    IF digits = <<>> THEN 0
    ELSE 10 * Spelled(SubSeq(digits, 1, Len(digits) - 1)) + DigitVal(digits[Len(digits)])

IsDecimalOf(s, v) ==
    LET digits == IF v < 0 THEN Tail(s) ELSE s
    IN  /\ s /= <<>>
        /\ (v < 0) <=> (s[1] = "-")
        /\ digits /= <<>>
        /\ \A i \in DOMAIN digits : DigitVal(digits[i]) >= 0
        /\ Len(digits) > 1 => digits[1] /= "0"
        /\ Spelled(digits) = (IF v < 0 THEN 0 - v ELSE v)

\* C15: u64, i64, u128 and i128 are written as a JSON string holding the
\* base-10 digits of the value ("-" first when negative) and read back as the
\* same value, zero and both ends of the range included; a well-formed decimal
\* string whose number is outside the type's range is refused, never
\* truncated or wrapped, and so is any string that is not a decimal number.
C15_IntegersAreDecimalStrings ==
    \A type \in IntTypes :
        /\ Encoded(type) =>
             /\ codec.shown.v.json = "String"
             /\ codec.shown.v.chars = codec.s
             /\ IsDecimalOf(codec.s, codec.x.v)
             /\ codec.parsed.tag = "Ok"
             /\ codec.parsed.v = codec.x.v
        /\ Decoded(type) =>
             \A p \in IntStringParts : IntString(p) = codec.s =>
                 LET well_formed == /\ p.junk = <<>>
                                    /\ (p.n >= 0 \/ p.zeros /= <<>>)
                                    /\ (p.sign = <<"-">> => IsSigned(type))
                     magnitude == IF p.n < 0 THEN 0 ELSE p.n
                     value == IF p.sign = <<"-">> THEN 0 - magnitude ELSE magnitude
                 IN  IF well_formed /\ IntMin(type) <= value /\ value <= IntMax(type)
                     THEN codec.parsed.tag = "Ok" /\ codec.parsed.v = value
                     ELSE codec.parsed.tag = "Err"

\* the smallest i128 is written and read back
C15_Witness ==
    /\ Encoded("i128") /\ codec.x.v = IntMin("i128")
    /\ codec.s[1] = "-"
    /\ codec.parsed.tag = "Ok" /\ codec.parsed.v = IntMin("i128")

C15_WitnessMax ==
    /\ Encoded("u64") /\ codec.x.v = U64Max
    /\ codec.parsed.tag = "Ok" /\ codec.parsed.v = U64Max

C15_WitnessOutOfRange ==
    /\ Decoded("u64") /\ codec.s = ToDecimal(U64Max + 1)
    /\ codec.parsed.tag = "Err"

C15_WitnessBelowRange ==
    /\ Decoded("i64") /\ codec.s = <<"-">> \o ToDecimal(Pow2(WordBits - 1) + 1)
    /\ codec.parsed.tag = "Err"

\* C16 as stated: whenever a string decodes, encoding the decoded value gives
\* that very string back.
C16_Original ==
    \A type \in WireTypes :
        (Decoded(type) /\ codec.parsed.tag = "Ok") => codec.shown.v.chars = codec.s

\* C16: whenever a string decodes, encoding the decoded value gives a string
\* that decodes to the same value (the canonical spelling of s), and a string
\* that is itself an encoding is given back unchanged; other strings that
\* decode (bytes without "0x" or with uppercase digits, integers with "+" or
\* leading zeros, addresses with uppercase or leading zeros) come back changed.
C16_ReencodingIsCanonical ==
    \A type \in WireTypes :
        /\ (Decoded(type) /\ codec.parsed.tag = "Ok") =>
              /\ codec.reparsed.v.tag = "Ok"
              /\ codec.reparsed.v.v = codec.parsed.v
        /\ Encoded(type) =>
              /\ codec.parsed.tag = "Ok"
              /\ codec.shown.v.chars = codec.s

\* "1B" decodes to one byte and is encoded as "0x1b"
C16_Witness ==
    /\ Decoded("bytes") /\ codec.s = <<"1", "B">>
    /\ codec.parsed.tag = "Ok"
    /\ codec.shown.v.chars = <<"0", "x", "1", "b">>
    /\ codec.reparsed.v = codec.parsed

C16_WitnessInt ==
    /\ Decoded("u64") /\ codec.s = <<"+", "0", "1">>
    /\ codec.parsed.tag = "Ok" /\ codec.parsed.v = 1
    /\ codec.shown.v.chars = <<"1">>

HasSeparator(s) == \E i \in 1..(Len(s) - 1) : s[i] = ":" /\ s[i + 1] = ":"

\* C17: what a ByteCodeOrScriptFunction string is read as depends on "::"
\* alone.  A string with "::" is read as a function reference and as nothing
\* else: it gives the function id FunctionIdView reads, or fails when that
\* fails.  A string without "::" is read as hex and as nothing else: it gives
\* the bytes StrView<Vec<u8>> reads, or fails when that fails.
C17_SeparatorAloneDecides ==
    Decoded("code") =>
        LET s == codec.s
            id == FunctionIdViewFromStr(s)
            bytes == StrViewBytesFromStr(s)
        IN  IF HasSeparator(s)
            THEN IF id.tag = "Err" THEN codec.parsed.tag = "Err"
                 ELSE /\ codec.parsed.tag = "Ok"
                      /\ codec.parsed.v.variant = "ScriptFunction"
                      /\ codec.parsed.v.id = id.v
            ELSE IF bytes.tag = "Err" THEN codec.parsed.tag = "Err"
                 ELSE /\ codec.parsed.tag = "Ok"
                      /\ codec.parsed.v.variant = "ByteCode"
                      /\ codec.parsed.v.code = bytes.v

\* "0x1::M::f" is the function f of module M at address 0x1
C17_Witness ==
    /\ Decoded("code")
    /\ codec.s = <<"0", "x", "1", ":", ":", "M", ":", ":", "f">>
    /\ codec.parsed.tag = "Ok"
    /\ codec.parsed.v.variant = "ScriptFunction"
    /\ codec.parsed.v.id = [module |-> [address |-> AddressOf(<<1>>), name |-> StrM],
                            function |-> StrF]

\* "0x1234ab" is bytecode
C17_WitnessByteCode ==
    /\ Decoded("code") /\ codec.s = Str0x1234ab
    /\ codec.parsed.tag = "Ok"
    /\ codec.parsed.v.variant = "ByteCode"
    /\ codec.parsed.v.code = <<18, 52, 171>>

\* a string with "::" that is no function reference fails
C17_WitnessNoFallback ==
    /\ Decoded("code") /\ codec.s = <<"a", "B", ":", ":", "a", "B">>
    /\ codec.parsed.tag = "Err"

\* C18: reading the Display of a ByteCodeOrScriptFunction gives the value
\* back in the same variant: bytecode, the empty one ("0x") included, is
\* written without "::" and read as the same bytes; a function reference is
\* written with "::" and read as the same module id and function name.
C18_DisplayThenParseIsIdentity ==
    Encoded("code") =>
        LET v == codec.x.v
        IN  /\ codec.parsed.tag = "Ok"
            /\ codec.parsed.v.variant = v.variant
            /\ IF v.variant = "ByteCode"
               THEN /\ ~HasSeparator(codec.s)
                    /\ codec.parsed.v.code = v.code
               ELSE /\ HasSeparator(codec.s)
                    /\ codec.parsed.v.id.module = v.id.module
                    /\ codec.parsed.v.id.function = v.id.function

\* the empty bytecode is written "0x" and read back
C18_Witness ==
    /\ Encoded("code") /\ codec.x.v = ByteCode(<<>>)
    /\ codec.s = Str0x
    /\ codec.parsed.tag = "Ok" /\ codec.parsed.v.variant = "ByteCode"
    /\ codec.parsed.v.code = <<>>

C18_WitnessFunction ==
    /\ Encoded("code") /\ codec.x.v.variant = "ScriptFunction"
    /\ codec.x.v.id.module.address = AddressOf(<<10, 11>>)
    /\ HasSeparator(codec.s)
    /\ codec.parsed.tag = "Ok" /\ codec.parsed.v.variant = "ScriptFunction"
    /\ codec.parsed.v.id = codec.x.v.id

\* C19: a function id string is cut at its last "::" into container path and
\* member name, and the container path must be exactly address::name.  The
\* parse fails when there is no "::", when the container path has fewer or
\* more than two segments, and when the address or either identifier is
\* malformed; otherwise it gives that address, module name and function name.
C19_FunctionIdSplitsAtLastSeparator ==
    Decoded("function_id") =>
        LET s == codec.s
            seps == {i \in 1..(Len(s) - 1) : s[i] = ":" /\ s[i + 1] = ":"}
        IN  IF seps = {} THEN codec.parsed.tag = "Err"
            ELSE LET last == CHOOSE i \in seps : \A j \in seps : j <= i
                     container_path == SubSeq(s, 1, last - 1)
                     member_name == SubSeq(s, last + 2, Len(s))
                     segments == Split(container_path)
                     well_formed ==
                         /\ Len(segments) = 2
                         /\ AccountAddressFromStr(segments[1]).tag = "Ok"
                         /\ IdentifierNew(segments[2]).tag = "Ok"
                         /\ IdentifierNew(member_name).tag = "Ok"
                 IN  /\ (codec.parsed.tag = "Ok") <=> well_formed
                     /\ well_formed =>
                          /\ codec.parsed.v.module.address = AccountAddressFromStr(segments[1]).v
                          /\ codec.parsed.v.module.name = segments[2]
                          /\ codec.parsed.v.function = member_name

\* "0x1::M::func1" is cut into "0x1::M" and "func1"
C19_Witness ==
    /\ Decoded("function_id") /\ codec.s = Str0x1MFunc1
    /\ codec.parsed.tag = "Ok"
    /\ codec.parsed.v.module = [address |-> AddressOf(<<1>>), name |-> StrM]
    /\ codec.parsed.v.function = <<"f", "u", "n", "c", "1">>

\* "M::f" fails: its container path has one segment
C19_WitnessOneSegment ==
    /\ Decoded("function_id") /\ codec.s = <<"M", ":", ":", "f">>
    /\ codec.parsed.tag = "Err"

\* "0x1::M::M::f" fails: its container path has three segments
C19_WitnessThreeSegments ==
    /\ Decoded("function_id")
    /\ codec.s = <<"0", "x", "1", ":", ":", "M", ":", ":", "M", ":", ":", "f">>
    /\ codec.parsed.tag = "Err"

C19_WitnessNoSeparator ==
    Decoded("function_id") /\ codec.s = <<"M">> /\ codec.parsed.tag = "Err"

\* an address as Display writes it: "0x" and lowercase digits, no leading zero
IsShortAddress(a) ==
    /\ StartsWith(a, Str0x) /\ Len(a) >= 3
    /\ \A i \in 3..Len(a) : IsLowerHex(a[i])
    /\ Len(a) > 3 => a[3] /= "0"

\* C20: reading "0x1::Account::create_account" and writing the value gives
\* the same string, and so does every reference that reads well and whose
\* address is written short.
C20_ShortReferenceRoundTrips ==
    \A type \in RefTypes :
        (/\ Decoded(type) /\ codec.parsed.tag = "Ok"
         /\ HasSeparator(codec.s)
         /\ IsShortAddress(Split(codec.s)[1])) =>
            codec.shown.v.chars = codec.s

C20_Witness ==
    /\ Decoded("function_id") /\ codec.s = Str0x1AccountCreateAccount
    /\ codec.parsed.tag = "Ok"
    /\ codec.parsed.v.function = StrCreateAccount
    /\ codec.shown.v.chars = Str0x1AccountCreateAccount
(***************************************************************************)
(* Properties of the argument lists on the wire                            *)
(***************************************************************************)
\* item is the JSON string "0x" and two lowercase digits for each of bytes
IsHexStringOf(item, bytes) ==
    /\ item.json = "String"
    /\ Len(item.chars) = 2 + 2 * Len(bytes)
    /\ item.chars[1] = "0" /\ item.chars[2] = "x"
    /\ \A i \in 3..Len(item.chars) : IsLowerHex(item.chars[i])
    /\ \A i \in DOMAIN bytes :
         16 * HexVal(item.chars[2 * i + 1]) + HexVal(item.chars[2 * i + 2]) = bytes[i]

\* an address literal with all its digits, in lowercase
IsFullAddressLiteral(s) ==
    /\ Len(s) = 2 + AddressHexLen
    /\ StartsWith(s, Str0x)
    /\ \A i \in 3..Len(s) : IsLowerHex(s[i])

ArgumentsDecoded == codec.op = "arguments_decode" /\ codec.parsed.tag = "Ok"
ArgumentsEncoded == codec.op = "arguments_encode"

\* an argument list read from the wire is HumanReadable, an argument list
\* written to the wire is the hexadecimal BCS bytes of its arguments, in the
\* same number and order, and a HumanReadable list is written as the BCS list
\* of its to_bcs_bytes
ArgumentsWireShape ==
    /\ ArgumentsDecoded =>
         /\ codec.parsed.v.variant = "HumanReadable"
         /\ Len(codec.parsed.v.vs) = Len(codec.s)
         /\ codec.shown.v.json = "Array"
         /\ Len(codec.shown.v.items) = Len(codec.s)
         /\ \A i \in DOMAIN codec.s :
              IsHexStringOf(codec.shown.v.items[i], BcsBytes(codec.parsed.v.vs[i]))
    /\ ArgumentsEncoded =>
         /\ codec.shown.json = "Array"
         /\ Len(codec.shown.items) = Len(codec.x.vs)
         /\ \A i \in DOMAIN codec.x.vs :
              IsHexStringOf(codec.shown.items[i],
                            IF codec.x.variant = "BCS" THEN codec.x.vs[i]
                            ELSE BcsBytes(codec.x.vs[i]))
         /\ codec.shown = ArgumentsViewSerialize(BCS(codec.bytes))

\* C21 as stated: the wire shape above, and no literal read from a request
\* is written back as the literal it was read from.
C21_Original ==
    /\ ArgumentsWireShape
    /\ ArgumentsDecoded =>
         \A i \in DOMAIN codec.s : codec.shown.v.items[i].chars /= codec.s[i]

\* C21: an argument list read from the wire is always HumanReadable, a list
\* written to the wire is always the canonical hexadecimal BCS bytes of its
\* arguments in the same number and order, whichever variant it is, and a
\* literal read from a request is written back as its bytes: the string
\* written is the literal itself only for an address spelled with all its
\* digits in lowercase, whose bytes spell the same string.
C21_ArgumentsReadAsLiteralsWrittenAsBytes ==
    /\ ArgumentsWireShape
    /\ ArgumentsDecoded =>
         \A i \in DOMAIN codec.s :
            codec.shown.v.items[i].chars = codec.s[i] =>
                /\ codec.parsed.v.vs[i].ty = "Address"
                /\ IsFullAddressLiteral(codec.s[i])

\* a number and a bool are read as literals and written as their bytes
C21_Witness ==
    /\ ArgumentsDecoded
    /\ codec.s = <<<<"7">>, StrTrue>>
    /\ codec.parsed.v = HumanReadable(<<[ty |-> "U64", val |-> 7], [ty |-> "Bool", val |-> 1]>>)
    /\ codec.shown.v.items[1].chars = Str0x \o <<"0", "7", "0", "0", "0", "0", "0", "0", "0", "0", "0", "0", "0", "0", "0", "0">>
    /\ codec.shown.v.items[2].chars = <<"0", "x", "0", "1">>

\* a HumanReadable list is written as its bytes
C21_WitnessEncode ==
    /\ ArgumentsEncoded
    /\ codec.x = HumanReadable(<<[ty |-> "U8", val |-> 7], [ty |-> "U8Vector", val |-> <<171>>]>>)
    /\ codec.shown.items[1].chars = <<"0", "x", "0", "7">>
    /\ codec.shown.items[2].chars = <<"0", "x", "0", "1", "a", "b">>

\* an address literal in full is written back as the same string
C21_WitnessFullAddress ==
    /\ ArgumentsDecoded
    /\ Len(codec.s) = 1
    /\ IsFullAddressLiteral(codec.s[1])
    /\ codec.shown.v.items[1].chars = codec.s[1]
(***************************************************************************)
(* Properties of the status conversion                                     *)
(***************************************************************************)
StatusConverted == codec.op = "status"

VMStatusTags == {"Executed", "OutOfGas", "MoveAbort", "ExecutionFailure", "MiscellaneousError", "Discard"}

\* C22: every TransactionStatus converts to one TransactionVMStatus tag: a
\* discarded status to Discard carrying only its numeric code, a kept status
\* to the tag of the same name with the abort location and code, and the
\* location, function and code offset of a failure, unchanged; no kept status
\* becomes Discard, no discarded status a kept tag, and no other status
\* converts to the same result.
C22_StatusConversionKeepsTagAndFields ==
    StatusConverted =>
        LET s == codec.x
            v == codec.v
        IN  /\ v.tag \in VMStatusTags
            /\ s.st = "Discard" =>
                 /\ v.tag = "Discard"
                 /\ DOMAIN v = {"tag", "status_code"}
                 /\ v.status_code = s.d
            /\ s.st = "Keep" =>
                 /\ v.tag /= "Discard"
                 /\ v.tag = s.k.kept
                 /\ v.tag = "MoveAbort" =>
                      /\ DOMAIN v = {"tag", "location", "abort_code"}
                      /\ v.location = s.k.location /\ v.abort_code = s.k.abort_code
                 /\ v.tag = "ExecutionFailure" =>
                      /\ DOMAIN v = {"tag", "location", "function", "code_offset"}
                      /\ v.location = s.k.location /\ v.function = s.k.function
                      /\ v.code_offset = s.k.code_offset
                 /\ v.tag \in {"Executed", "OutOfGas", "MiscellaneousError"} =>
                      DOMAIN v = {"tag"}
            /\ \A t \in ConvertedStatuses :
                 LET w == FromTransactionStatus(t)
                 IN  (w.tag = v.tag /\ w = v) => t = s

\* an abort in a module is converted with its location and code
C22_Witness ==
    /\ StatusConverted
    /\ codec.x = [st |-> "Keep", k |-> [kept |-> "MoveAbort", location |-> AbortLocation1, abort_code |-> 42]]
    /\ codec.v = [tag |-> "MoveAbort", location |-> AbortLocation1, abort_code |-> 42]

\* a discarded status is converted to its code
C22_WitnessDiscard ==
    /\ StatusConverted
    /\ codec.x = [st |-> "Discard", d |-> 17]
    /\ codec.v = [tag |-> "Discard", status_code |-> 17]
(***************************************************************************)
(* Properties of the request on the wire                                   *)
(***************************************************************************)
RequestWritten == codec.op = "request"

NumericFields == {"sequence_number", "max_gas_amount", "gas_unit_price", "expiration_timestamp_secs", "chain_id"}

\* item is the JSON string of the decimal digits of n
IsDecimalStringOf(item, n) ==
    /\ item.json = "String"
    /\ item.chars = ToDecimal(n)

\* the byte fields of the written request are hexadecimal strings of the
\* bytes of the transaction: module bytecode, script bytecode, argument bytes
ByteFieldsAreHex ==
    LET fields == codec.wire.fields
        payload == codec.raw.payload
        modules == IF payload.kind = "Package" THEN payload.modules ELSE <<>>
        args == CASE payload.kind = "Script" -> payload.script.args
                  [] payload.kind = "ScriptFunction" -> payload.script_function.args
                  [] payload.kind = "Package" ->
                        IF IsSome(payload.init_script) THEN payload.init_script.v.args ELSE <<>>
    IN  /\ Len(fields.modules.items) = Len(modules)
        /\ \A i \in DOMAIN modules : IsHexStringOf(fields.modules.items[i], modules[i].code)
        /\ payload.kind = "Script" => IsHexStringOf(fields.script.fields.code, payload.script.code)
        /\ fields.script.json = "Object" =>
             /\ Len(fields.script.fields.args.items) = Len(args)
             /\ \A i \in DOMAIN args : IsHexStringOf(fields.script.fields.args.items[i], args[i])

\* C23: in a serialized TransactionRequest or DryRunTransactionRequest every
\* numeric field (sequence number, gas amount, gas price, expiration, chain
\* id) is a string of decimal digits and every byte field (module bytecode,
\* script bytecode, argument bytes) is "0x" and lowercase hexadecimal digits.
C23_NumbersAreDecimalStringsBytesAreHex ==
    RequestWritten =>
        /\ \A name \in NumericFields :
              IsDecimalStringOf(codec.wire.fields[name], codec.request[name].v)
        /\ ByteFieldsAreHex
(***************************************************************************)
(* Properties of run: the compiled units                                   *)
(***************************************************************************)
\* the bytecode a payload carries: the script's code, or the package's modules
PayloadCodes(payload) ==
    CASE payload.kind = "Script" -> {payload.script.code}
      [] payload.kind = "Package" -> {payload.modules[i].code : i \in DOMAIN payload.modules}
      [] payload.kind = "ScriptFunction" -> {}

\* the payload is built from unit alone: a script from a script unit, a
\* package of one module from a module unit
BuiltFromUnit(payload, unit) ==
    /\ payload.kind = (IF unit.tag = "Script" THEN "Script" ELSE "Package")
    /\ PayloadCodes(payload) = {unit.bytes}

Compiled == IsSome(compile_units)
RunFailed(msg) == IsSome(result) /\ IsErr(result.v, msg)

\* C24: when the compiler gives one or more units the payload is built from
\* the last unit only, its bytes and its tag, and the bytes of no earlier
\* unit appear in it; when it gives no unit run fails before any payload is
\* built; when it reports errors run fails with the compile error and no
\* payload.
C24_PayloadFromLastCompiledUnit ==
    /\ [](Compiled =>
            /\ (~compile_units.v.ok =>
                    /\ pc = "done" /\ RunFailed("compile error")
                    /\ txn_payload = None /\ bytedata = None /\ calls = <<>>)
            /\ (compile_units.v.ok /\ compile_units.v.units = <<>> =>
                    /\ pc = "done"
                    /\ RunFailed("file should at least contain one compile unit")
                    /\ txn_payload = None /\ bytedata = None /\ calls = <<>>)
            /\ (compile_units.v.ok /\ compile_units.v.units /= <<>> =>
                    /\ pc = "build_payload"
                    /\ bytedata = Some([bytecode |-> Last(compile_units.v.units).bytes,
                                        is_script |-> Last(compile_units.v.units).tag = "Script"])))
    /\ [][Compiled /\ pc = "build_payload" /\ IsSome(txn_payload') =>
            LET units == compile_units.v.units
            IN  /\ BuiltFromUnit(txn_payload'.v, Last(units))
                /\ \A i \in 1..(Len(units) - 1) :
                      units[i].bytes /= Last(units).bytes =>
                          units[i].bytes \notin PayloadCodes(txn_payload'.v)]_vars

\* two different units were compiled and a payload is being built from the
\* second
C24_Witness ==
    /\ Compiled
    /\ pc = "build_payload"
    /\ compile_units.v.units = <<ModuleUnit, ScriptUnit>>
    /\ bytedata.v.bytecode = ScriptUnit.bytes

\* the compiler gave no unit and run failed
C24_WitnessNoUnit ==
    /\ Compiled
    /\ compile_units.v.ok /\ compile_units.v.units = <<>>
    /\ pc = "done"
    /\ RunFailed("file should at least contain one compile unit")

\* the compiler reported errors and run failed
C24_WitnessCompileError ==
    /\ Compiled
    /\ ~compile_units.v.ok
    /\ RunFailed("compile error")
(***************************************************************************)
(* Properties of run: another transaction of the sender is included        *)
(***************************************************************************)
Discarded == IsSome(output) /\ output.v.status.tag = "Discard"

\* the chain has moved past the sequence number this invocation read
Stale ==
    /\ IsSome(read_resource) /\ IsSome(read_resource.v) /\ IsSome(account_resource)
    /\ read_resource.v.v.sequence_number < account_resource.v.sequence_number

\* C25: however the inclusion of another transaction of the sender is
\* interleaved with run, run reads the sequence number once and never reads,
\* assembles or signs again: what it read, assembled and signed stays as it
\* is until run returns, and the signed transaction carries the number read,
\* stale or not; a dry run answered with Discard ends run in error with
\* nothing broadcast.
C25_StaleSequenceNumberIsNotRecovered ==
    /\ [](/\ Count("get_account_resource") <= 1
          /\ Count("node_info") <= 1
          /\ Count("account_sign_txn") <= 1
          /\ IsSome(signed_txn) =>
                /\ signed_txn.v.raw_txn = raw_txn.v
                /\ raw_txn.v.sequence_number = read_resource.v.v.sequence_number
          /\ Discarded =>
                /\ pc = "done"
                /\ IsErr(result.v, "TransactionStatus is discard")
                /\ submitted = <<>>
                /\ ~Called("submit_transaction"))
    /\ [][pc' /= "idle" =>
            /\ IsSome(read_resource) => read_resource' = read_resource
            /\ IsSome(raw_txn) => raw_txn' = raw_txn
            /\ IsSome(signed_txn) => signed_txn' = signed_txn]_vars

\* the chain moved on after the read, the stale transaction was signed and
\* simulated, the simulation discarded it and run ended without a broadcast
C25_Witness ==
    /\ Stale
    /\ IsSome(signed_txn)
    /\ signed_txn.v.raw_txn.sequence_number < account_resource.v.sequence_number
    /\ Discarded
    /\ pc = "done"
    /\ calls = <<"get_account_resource", "node_info", "account_sign_txn", "dry_run">>
    /\ submitted = <<>>
(***************************************************************************)
(* Properties of the request as the node reads it                          *)
(***************************************************************************)
\* the script or script function of the transaction that was signed; a
\* package has its init script function, if any
SignedScript ==
    LET payload == codec.raw.payload
    IN  CASE payload.kind = "Script" -> Some(payload)
          [] payload.kind = "ScriptFunction" -> Some(payload)
          [] payload.kind = "Package" ->
                IF IsSome(payload.init_script)
                THEN Some([kind |-> "ScriptFunction", script_function |-> payload.init_script.v])
                ELSE None

\* C26: in a remote dry run the node reconstructs from the request the
\* transaction that was signed: reading the serialized request with the
\* decoder of ArgumentsView and taking to_bcs_bytes gives the same code or
\* function reference, the same type arguments and the same argument bytes in
\* the same order.
C26_RemoteReconstructsSignedTransaction ==
    RequestWritten =>
        /\ codec.remote.tag = "Ok"
        /\ codec.remote.v = SignedScript

(***************************************************************************)
(* Properties of the request built from a raw transaction                  *)
(***************************************************************************)
\* data is the ScriptData of a script function with its reference, type
\* arguments and argument bytes
IsScriptFunctionData(data, function) ==
    /\ data.code.variant = "ScriptFunction"
    /\ data.code.id.module = function.module
    /\ data.code.id.function = function.function
    /\ data.type_args = function.ty_args
    /\ data.args.variant = "BCS"
    /\ data.args.vs = function.args

\* C27: the request built from a raw transaction has the sender, sequence
\* number, gas amount, gas price, gas token, expiration and chain id of the
\* raw transaction, each present; a script payload gives a script with its
\* bytecode and no modules, a script function payload a script with the
\* function reference and no modules, a package all its modules in their
\* order and a script with the init function exactly when the package has
\* one.
C27_RequestCarriesTheRawTransaction ==
    RequestWritten =>
        LET raw == codec.raw
            payload == codec.raw.payload
            request == codec.request
        IN  /\ request.sender = Some(raw.sender)
            /\ request.sequence_number = Some(raw.sequence_number)
            /\ request.max_gas_amount = Some(raw.max_gas_amount)
            /\ request.gas_unit_price = Some(raw.gas_unit_price)
            /\ request.gas_token_code = Some(raw.gas_token_code)
            /\ request.expiration_timestamp_secs = Some(raw.expiration_timestamp_secs)
            /\ request.chain_id = Some(raw.chain_id)
            /\ payload.kind = "Script" =>
                 /\ request.modules = <<>>
                 /\ IsSome(request.script)
                 /\ request.script.v.code.variant = "ByteCode"
                 /\ request.script.v.code.code = payload.script.code
                 /\ request.script.v.type_args = payload.script.ty_args
                 /\ request.script.v.args.vs = payload.script.args
            /\ payload.kind = "ScriptFunction" =>
                 /\ request.modules = <<>>
                 /\ IsSome(request.script)
                 /\ IsScriptFunctionData(request.script.v, payload.script_function)
            /\ payload.kind = "Package" =>
                 /\ Len(request.modules) = Len(payload.modules)
                 /\ \A i \in DOMAIN payload.modules : request.modules[i] = payload.modules[i].code
                 /\ IsSome(request.script) <=> IsSome(payload.init_script)
                 /\ IsSome(request.script) =>
                      IsScriptFunctionData(request.script.v, payload.init_script.v)

\* a package of two modules with an init function
C27_Witness ==
    /\ RequestWritten
    /\ codec.raw.payload.kind = "Package"
    /\ IsSome(codec.raw.payload.init_script)
    /\ codec.request.modules = <<<<26, 171>>, <<1>>>>
    /\ IsSome(codec.request.script)
    /\ codec.request.sequence_number = Some(4)
    /\ codec.request.expiration_timestamp_secs = Some(U64Max)

\* a package without an init function
C27_WitnessNoInit ==
    /\ RequestWritten
    /\ codec.raw.payload.kind = "Package"
    /\ Len(codec.request.modules) = 2
    /\ IsNone(codec.request.script)

\* a script
C27_WitnessScript ==
    /\ RequestWritten
    /\ codec.raw.payload.kind = "Script"
    /\ codec.request.script.v.code = ByteCode(<<26, 171>>)
    /\ codec.request.modules = <<>>

(***************************************************************************)
(* Properties of run: the expiration sum                                   *)
(***************************************************************************)
Aborted == IsSome(result) /\ result.v.tag = "Panic" /\ result.v.msg = "attempt to add with overflow"

\* C28: for every timeout and every now_seconds of the node the expiration
\* of the assembled transaction is their exact sum, so never before
\* now_seconds: the addition neither wraps around nor aborts run.
C28_ExpirationSumIsExact ==
    /\ ~Aborted
    /\ IsSome(raw_txn) =>
          /\ raw_txn.v.expiration_timestamp_secs = opt.v.expiration_time + node_now.v
          /\ raw_txn.v.expiration_timestamp_secs >= node_now.v

(***************************************************************************)
(* Properties of the index of a transaction in its block                   *)
(***************************************************************************)
Indexed == codec.op = "index"

\* the transaction is one of the block's
InBlock == \E i \in DOMAIN codec.transactions : codec.transactions[i] = codec.txn.id

\* C29: for a user transaction of the block TransactionView::new and
\* TransactionInfoView::new compute the same index, one more than the first
\* position of a transaction with its id; index 0 is given to the block
\* metadata transaction only: a user transaction whose hash is not in the
\* block never gets index 0.
C29_IndexZeroOnlyForBlockMetadata ==
    Indexed =>
        /\ (codec.txn.kind = "UserTransaction" /\ InBlock) =>
              /\ codec.view.tag = "Ok"
              /\ codec.info.tag = "Ok"
              /\ codec.view.v = codec.info.v
              /\ codec.view.v >= 1
              /\ codec.transactions[codec.view.v] = codec.txn.id
              /\ \A i \in 1..(codec.view.v - 1) : codec.transactions[i] /= codec.txn.id
        /\ (codec.view.tag = "Ok" /\ codec.view.v = 0) => codec.txn.kind = "BlockMetadata"
        /\ (codec.info.tag = "Ok" /\ codec.info.v = 0) => codec.txn.kind = "BlockMetadata"
====
